---- MODULE Spec2Model ----
(***************************************************************************)
(* HealthGuard decision-and-delivery pipeline: rule engine, rule/AI        *)
(* decision fusion, delivery engine, event queue, ephemeral artifacts and  *)
(* the autonomous scheduler loop.                                          *)
(*                                                                         *)
(* Conventions.  anomaly scores are in hundredths (0.7 is 70, 0.4 is 40);  *)
(* temperatures are in tenths of a degree Fahrenheit (104.0 is 1040);      *)
(* time is in seconds.  A Python value that may be absent, None or of the  *)
(* wrong type is a record [t |-> kind, v |-> number].  A call that raises  *)
(* returns a record whose field raised is TRUE.                            *)
(***************************************************************************)
EXTENDS Integers, Sequences, FiniteSets, TLC

\* ------------------------------------------------------------------------
\* Bounds of the model
\* ------------------------------------------------------------------------
MaxScore == 100
MaxTriggers == 2

\* ------------------------------------------------------------------------
\* decision.py : clinical thresholds
\* ------------------------------------------------------------------------
\* mutant: severe hypoglycemia only below 50
ShiftedRules ==
    [bp_systolic |-> [critical |-> 180, warning |-> 150, low_critical |-> 80],
     bp_diastolic |-> [critical |-> 120, warning |-> 100, low_critical |-> 50],
     glucose |-> [critical_high |-> 400, warning_high |-> 250,
                  critical_low |-> 49, warning_low |-> 70],
     heart_rate |-> [critical_high |-> 150, warning_high |-> 120,
                     critical_low |-> 40, warning_low |-> 50],
     temperature |-> [critical_high |-> 1040, warning_high |-> 1015,
                      critical_low |-> 950, warning_low |-> 965],
     oxygen_saturation |-> [critical_low |-> 90, warning_low |-> 93],
     pain_level |-> [critical |-> 9, warning |-> 7]]

RULES ==
    [bp_systolic |-> [critical |-> 180, warning |-> 150, low_critical |-> 80],
     bp_diastolic |-> [critical |-> 120, warning |-> 100, low_critical |-> 50],
     glucose |-> [critical_high |-> 400, warning_high |-> 250,
                  critical_low |-> 50, warning_low |-> 70],
     heart_rate |-> [critical_high |-> 150, warning_high |-> 120,
                     critical_low |-> 40, warning_low |-> 50],
     temperature |-> [critical_high |-> 1040, warning_high |-> 1015,
                      critical_low |-> 950, warning_low |-> 965],
     oxygen_saturation |-> [critical_low |-> 90, warning_low |-> 93],
     pain_level |-> [critical |-> 9, warning |-> 7]]

\* The f-string of a trigger: its level word, the metric, the offending
\* value, the comparison printed and the threshold printed.
Message(level, metric, v, cmp, shown) ==
    [level |-> level, metric |-> metric, value |-> v, cmp |-> cmp, shown |-> shown]

RuleResult(severity, metric, v, threshold, message) ==
    [triggered |-> TRUE, severity |-> severity, metric |-> metric, value |-> v,
     threshold |-> threshold, message |-> message]

\* mutant: a wrapper is not looked into
ReadBare(x) == IF x.shape = "dict" THEN 0 ELSE x.num

\* vitals[m]["value"] if isinstance(vitals[m], dict) else vitals[m]
ReadValue(x) == IF x.shape = "dict" THEN x.fields.value ELSE x.num

Wrapped(v) == [shape |-> "dict", fields |-> [value |-> v, unit |-> ""]]

Bare(v) == [shape |-> "num", num |-> v]

Has(vitals, m) == m \in DOMAIN vitals

rule_bp_systolic(vitals) ==
    IF ~Has(vitals, "bp_systolic") THEN << >>
    ELSE LET v == ReadValue(vitals["bp_systolic"]) IN
         IF v >= RULES.bp_systolic.critical
         THEN << RuleResult(1, "bp_systolic", v, 180, Message("CRITICAL", "bp_systolic", v, ">=", 180)) >>
         ELSE IF v >= RULES.bp_systolic.warning
         THEN << RuleResult(2, "bp_systolic", v, 150, Message("WARNING", "bp_systolic", v, ">=", 150)) >>
         ELSE IF v <= RULES.bp_systolic.low_critical
         THEN << RuleResult(1, "bp_systolic", v, 80, Message("CRITICAL", "bp_systolic", v, "<=", 80)) >>
         ELSE << >>

rule_bp_diastolic(vitals) ==
    IF ~Has(vitals, "bp_diastolic") THEN << >>
    ELSE LET v == ReadValue(vitals["bp_diastolic"]) IN
         IF v >= RULES.bp_diastolic.critical
         THEN << RuleResult(1, "bp_diastolic", v, 120, Message("CRITICAL", "bp_diastolic", v, ">=", 120)) >>
         ELSE IF v >= RULES.bp_diastolic.warning
         THEN << RuleResult(2, "bp_diastolic", v, 100, Message("WARNING", "bp_diastolic", v, ">=", 100)) >>
         ELSE << >>

rule_glucose(vitals) ==
    IF ~Has(vitals, "glucose") THEN << >>
    ELSE LET v == ReadValue(vitals["glucose"]) IN
         IF v >= RULES.glucose.critical_high
         THEN << RuleResult(1, "glucose", v, 400, Message("CRITICAL", "glucose", v, ">=", 400)) >>
         ELSE IF v >= RULES.glucose.warning_high
         THEN << RuleResult(2, "glucose", v, 250, Message("WARNING", "glucose", v, ">=", 250)) >>
         ELSE IF v <= RULES.glucose.critical_low
         THEN << RuleResult(1, "glucose", v, 50, Message("CRITICAL", "glucose", v, "<=", 50)) >>
         ELSE IF v <= RULES.glucose.warning_low
         THEN << RuleResult(2, "glucose", v, 70, Message("WARNING", "glucose", v, "<=", 70)) >>
         ELSE << >>

rule_heart_rate(vitals) ==
    IF ~Has(vitals, "heart_rate") THEN << >>
    ELSE LET v == ReadValue(vitals["heart_rate"]) IN
         IF v >= RULES.heart_rate.critical_high
         THEN << RuleResult(1, "heart_rate", v, 150, Message("CRITICAL", "heart_rate", v, ">=", 150)) >>
         ELSE IF v >= RULES.heart_rate.warning_high
         THEN << RuleResult(2, "heart_rate", v, 120, Message("WARNING", "heart_rate", v, ">=", 120)) >>
         ELSE IF v <= RULES.heart_rate.critical_low
         THEN << RuleResult(1, "heart_rate", v, 40, Message("CRITICAL", "heart_rate", v, "<=", 40)) >>
         ELSE << >>

rule_temperature(vitals) ==
    IF ~Has(vitals, "temperature") THEN << >>
    ELSE LET v == ReadValue(vitals["temperature"]) IN
         IF v >= RULES.temperature.critical_high
         THEN << RuleResult(1, "temperature", v, 1040, Message("CRITICAL", "temperature", v, ">=", 1040)) >>
         ELSE IF v >= RULES.temperature.warning_high
         THEN << RuleResult(2, "temperature", v, 1015, Message("WARNING", "temperature", v, ">=", 1015)) >>
         ELSE IF v <= RULES.temperature.critical_low
         THEN << RuleResult(1, "temperature", v, 950, Message("CRITICAL", "temperature", v, "<=", 950)) >>
         ELSE << >>

rule_oxygen_saturation(vitals) ==
    IF ~Has(vitals, "oxygen_saturation") THEN << >>
    ELSE LET v == ReadValue(vitals["oxygen_saturation"]) IN
         IF v <= RULES.oxygen_saturation.critical_low
         THEN << RuleResult(1, "oxygen_saturation", v, 90, Message("CRITICAL", "oxygen_saturation", v, "<=", 90)) >>
         ELSE IF v <= RULES.oxygen_saturation.warning_low
         THEN << RuleResult(2, "oxygen_saturation", v, 93, Message("WARNING", "oxygen_saturation", v, "<=", 93)) >>
         ELSE << >>

\* mutant: the warning test is an `if` of its own, not an `elif`
rule_pain_level_twice(vitals) ==
    IF ~Has(vitals, "pain_level") THEN << >>
    ELSE LET v == ReadValue(vitals["pain_level"]) IN
         (IF v >= RULES.pain_level.critical
          THEN << RuleResult(1, "pain_level", v, 9, Message("CRITICAL", "pain_level", v, "/10", 10)) >>
          ELSE << >>)
         \o (IF v >= RULES.pain_level.warning
             THEN << RuleResult(2, "pain_level", v, 7, Message("WARNING", "pain_level", v, "/10", 10)) >>
             ELSE << >>)

rule_pain_level(vitals) ==
    IF ~Has(vitals, "pain_level") THEN << >>
    ELSE LET v == ReadValue(vitals["pain_level"]) IN
         IF v >= RULES.pain_level.critical
         THEN << RuleResult(1, "pain_level", v, 9, Message("CRITICAL", "pain_level", v, "/10", 10)) >>
         ELSE IF v >= RULES.pain_level.warning
         THEN << RuleResult(2, "pain_level", v, 7, Message("WARNING", "pain_level", v, "/10", 10)) >>
         ELSE << >>

IsSeverity1(r) == r.severity = 1

IsSeverity2(r) == r.severity = 2

IsSeverity3(r) == r.severity = 3

Reversed(results) == [i \in 1..Len(results) |-> results[Len(results) + 1 - i]]

\* mutant: a sort that does not keep the order of equal keys
SortUnstable(results) ==
    Reversed(SelectSeq(results, IsSeverity1)) \o Reversed(SelectSeq(results, IsSeverity2))
        \o Reversed(SelectSeq(results, IsSeverity3))

\* results.sort(key=lambda r: r.severity): a stable sort on three keys
SortBySeverity(results) ==
    SelectSeq(results, IsSeverity1) \o SelectSeq(results, IsSeverity2)
        \o SelectSeq(results, IsSeverity3)

evaluate_rules(vitals) ==
    SortBySeverity(rule_bp_systolic(vitals) \o rule_bp_diastolic(vitals)
        \o rule_glucose(vitals) \o rule_heart_rate(vitals)
        \o rule_temperature(vitals) \o rule_oxygen_saturation(vitals)
        \o rule_pain_level(vitals))

\* ------------------------------------------------------------------------
\* decision.py : combine_decisions
\* ------------------------------------------------------------------------
\* A value read from parsed JSON: a number, a string, null, or a missing key
Num(n) == [t |-> "num", v |-> n, s |-> ""]

Str(s) == [t |-> "str", v |-> 0, s |-> s]

Absent == [t |-> "absent", v |-> 0, s |-> ""]

NoneValue == [t |-> "none", v |-> 0, s |-> ""]

\* a string that is not the text of a number
StrValue == Str("n/a")

\* dict.get(key, default): the default only when the key is missing
Get(x, default) == IF x.t = "absent" THEN default ELSE x

\* a > bound in Python: defined on numbers, TypeError on None and on str
CanCompare(a) == a.t = "num"

AlertThreshold == 70

MonitorThreshold == 40

NoWorstSeverity == 99

NoNote == -1

RECURSIVE MinOver(_, _)
MinOver(rule_results, default) ==
    IF rule_results = << >> THEN default
    ELSE LET rest == MinOver(Tail(rule_results), default) IN
         IF Head(rule_results).severity < rest THEN Head(rule_results).severity ELSE rest

\* mutant: the severity of the first trigger only
FirstSeverity(rule_results) ==
    IF rule_results = << >> THEN NoWorstSeverity ELSE rule_results[1].severity

\* min((r.severity for r in rule_results), default=99)
MinSeverity(rule_results) == MinOver(rule_results, NoWorstSeverity)

NoMessage == Message("", "", 0, "", 0)

RuleReason(message, note) == [kind |-> "rule", message |-> message, note |-> note, text |-> ""]

TextReason(text) == [kind |-> "text", message |-> NoMessage, note |-> NoNote, text |-> text]

\* a reason that is None
NoneReason == [kind |-> "none", message |-> NoMessage, note |-> NoNote, text |-> ""]

\* a reason that is a number
NumReason == [kind |-> "num", message |-> NoMessage, note |-> NoNote, text |-> ""]

\* reason[:n] is defined on strings only
IsStr(reason) == reason.kind \in {"rule", "text"}

Raised(what) ==
    [raised |-> TRUE, error |-> what, final_decision |-> "", final_severity |-> 0,
     reason |-> TextReason(""), source |-> "", ai_agreed |-> FALSE,
     rule_triggers |-> << >>, ai_decision |-> [decision |-> "", anomaly_score |-> Absent, reason |-> Absent]]

NotCalled ==
    [raised |-> FALSE, error |-> "not called", final_decision |-> "", final_severity |-> 0,
     reason |-> TextReason(""), source |-> "", ai_agreed |-> FALSE,
     rule_triggers |-> << >>, ai_decision |-> [decision |-> "", anomaly_score |-> Absent, reason |-> Absent]]

\* mutant: an alert raised by the AI alone is labelled escalate
FusedEscalating(final_decision, final_severity, reason, source, ai_agreed, rule_triggers, ai_decision) ==
    [raised |-> FALSE, error |-> "",
     final_decision |-> IF final_decision = "alert" /\ source = "ai_engine"
                        THEN "escalate" ELSE final_decision,
     final_severity |-> final_severity, reason |-> reason, source |-> source,
     ai_agreed |-> ai_agreed, rule_triggers |-> rule_triggers, ai_decision |-> ai_decision]

Fused(final_decision, final_severity, reason, source, ai_agreed, rule_triggers, ai_decision) ==
    [raised |-> FALSE, error |-> "", final_decision |-> final_decision,
     final_severity |-> final_severity, reason |-> reason, source |-> source,
     ai_agreed |-> ai_agreed, rule_triggers |-> rule_triggers, ai_decision |-> ai_decision]

\* ai_decision.get("decision", "normal")
AiAction(ai_decision) == IF ai_decision.decision = "absent" THEN "normal" ELSE ai_decision.decision

\* ai_decision.get("reason", default)
AiReason(ai_decision, default) ==
    IF ai_decision.reason.t = "absent" THEN TextReason(default)
    ELSE IF ai_decision.reason.t = "str" THEN TextReason(ai_decision.reason.s)
    ELSE IF ai_decision.reason.t = "none" THEN NoneReason
    ELSE NumReason

\* mutant: the boundary 0.7 itself escalates
EscalatesWarningInclusive(ai_anomaly) == ai_anomaly.v >= AlertThreshold

\* the comparison ai_anomaly > 0.7 of the warning branch
EscalatesWarning(ai_anomaly) == ai_anomaly.v > AlertThreshold

\* the comparison ai_anomaly > 0.4 of the warning branch
Corroborates(ai_anomaly) == ai_anomaly.v > MonitorThreshold

\* mutant: the boundary 0.7 itself makes an AI alert
AiAlertsInclusive(ai_anomaly) == ai_anomaly.v >= AlertThreshold

\* the comparison ai_anomaly > 0.7 of the branch without rule triggers
AiAlerts(ai_anomaly) == ai_anomaly.v > AlertThreshold

\* the comparison ai_anomaly > 0.4 of the branch without rule triggers
AiMonitors(ai_anomaly) == ai_anomaly.v > MonitorThreshold

combine_decisions(rule_results, ai_decision) ==
    LET worst_rule_severity == MinSeverity(rule_results)
        ai_anomaly == Get(ai_decision.anomaly_score, Num(0))
        ai_action == AiAction(ai_decision)
    IN  IF worst_rule_severity = 1
        THEN Fused("alert", 1, RuleReason(rule_results[1].message, NoNote), "rule_engine",
                   ai_action \in {"alert", "escalate"}, rule_results, ai_decision)
        ELSE IF ~CanCompare(ai_anomaly) THEN Raised("TypeError")
        ELSE IF worst_rule_severity = 2
        THEN Fused("alert",
                   IF EscalatesWarning(ai_anomaly) THEN 1 ELSE 2,
                   RuleReason(rule_results[1].message,
                              IF Corroborates(ai_anomaly) THEN ai_anomaly.v ELSE NoNote),
                   IF Corroborates(ai_anomaly) THEN "rule_engine+ai" ELSE "rule_engine",
                   ai_action \in {"alert", "escalate"}, rule_results, ai_decision)
        ELSE IF AiAlerts(ai_anomaly)
        THEN Fused("alert", 2, AiReason(ai_decision, "AI detected anomaly pattern"),
                   "ai_engine", TRUE, << >>, ai_decision)
        ELSE IF AiMonitors(ai_anomaly)
        THEN Fused("monitor", 3, AiReason(ai_decision, "Mild anomaly detected"),
                   "ai_engine", TRUE, << >>, ai_decision)
        ELSE Fused("normal", 3,
                   TextReason("All vitals within normal range. No anomalies detected."),
                   "combined", TRUE, << >>, ai_decision)

\* ------------------------------------------------------------------------
\* clients.py : TelegramClient;  inference.py : venice_tts
\* ------------------------------------------------------------------------
\* What the network does to one HTTP request
NetOutcomes == {"200", "500", "exception"}

\* What the speech provider hands back: audio bytes, zero bytes, or a failure
TtsOutcomes == {"audio", "empty", "failed"}

\* TelegramClient.send_message: a no-op with ok = False when not configured
send_message(enabled, net) ==
    IF ~enabled THEN [ok |-> FALSE, status_code |-> 0, requested |-> FALSE]
    ELSE IF net = "exception" THEN [ok |-> FALSE, status_code |-> 0, requested |-> TRUE]
    ELSE [ok |-> (net = "200"), status_code |-> (IF net = "200" THEN 200 ELSE 500),
          requested |-> TRUE]

\* TelegramClient.send_audio
send_audio(enabled, net) ==
    IF ~enabled THEN [ok |-> FALSE, status_code |-> 0, requested |-> FALSE]
    ELSE IF net = "exception" THEN [ok |-> FALSE, status_code |-> 0, requested |-> TRUE]
    ELSE [ok |-> (net = "200"), status_code |-> (IF net = "200" THEN 200 ELSE 500),
          requested |-> TRUE]

\* venice_tts: resp.content on success, None on any exception
venice_tts(outcome) ==
    IF outcome = "failed" THEN [is_none |-> TRUE, length |-> 0]
    ELSE [is_none |-> FALSE, length |-> (IF outcome = "audio" THEN 1 ELSE 0)]

\* `if audio:` is false for None and for zero bytes
Truthy(audio) == ~audio.is_none /\ audio.length > 0

\* ------------------------------------------------------------------------
\* delivery.py : DeliveryEngine
\* ------------------------------------------------------------------------
\* patient_id[:8] + "..." : a patient id is << first 8 characters, the rest >>
Prefix8(patient_id) == patient_id[1]

Call(api, purpose, r) == [api |-> api, purpose |-> purpose, ok |-> r.ok, requested |-> r.requested]

\* mutant: a receipt that says raw data was kept
RetainingReceipt(patient_id, severity, source) ==
    [type |-> "delivery", patient_id_hash |-> Prefix8(patient_id), severity |-> severity,
     source |-> source, actions_taken |-> << >>, raw_data_retained |-> TRUE,
     has_telegram |-> FALSE, telegram_ok |-> FALSE, telegram_response |-> << 0, FALSE >>,
     has_tts_audio |-> FALSE]

NewReceipt(patient_id, severity, source) ==
    [type |-> "delivery", patient_id_hash |-> Prefix8(patient_id), severity |-> severity,
     source |-> source, actions_taken |-> << >>, raw_data_retained |-> FALSE,
     has_telegram |-> FALSE, telegram_ok |-> FALSE, telegram_response |-> << 0, FALSE >>,
     has_tts_audio |-> FALSE]

Bump(stats, key) == [stats EXCEPT ![key] = @ + 1]

\* HealthGuardAgent._track_venice, the venice_tracker callback
track_venice(w, endpoint) ==
    [w EXCEPT !.venice_endpoints_used = @ \cup {endpoint},
              !.stats = Bump(@, "venice_calls")]

\* what a step of deliver hands on: the world, the receipt, and whether an
\* exception is on its way out
Delivered(w, receipt, raised) == [w |-> w, receipt |-> receipt, raised |-> raised]

\* _deliver_critical: patient message, speech synthesis, audio when there is
\* audio (reason[:100] in its caption), doctor message
deliver_critical(w, patient_id, reason, receipt, o) ==
    LET tg_result == send_message(w.telegram_enabled, o.tg1)
        r1 == [receipt EXCEPT !.has_telegram = TRUE, !.telegram_ok = tg_result.ok,
                              !.telegram_response = << tg_result.status_code, tg_result.ok >>,
                              !.actions_taken = Append(@, "telegram_alert")]
        w1 == [w EXCEPT !.ext_calls = Append(@, Call("send_message", "patient", tg_result)),
                        !.delivery_stats = Bump(@, "telegram_sent")]
        audio == venice_tts(o.tts)
        w2 == [w1 EXCEPT !.ext_calls =
                  Append(@, [api |-> "venice_tts", purpose |-> "spoken_alert",
                             ok |-> Truthy(audio), requested |-> TRUE])]
        r2 == [r1 EXCEPT !.actions_taken = Append(@, "tts_alert"), !.has_tts_audio = TRUE]
        w3 == track_venice([w2 EXCEPT !.delivery_stats = Bump(@, "tts_generated")],
                           "audio/speech")
        w4 == [w3 EXCEPT !.ext_calls =
                  Append(@, Call("send_audio", "patient", send_audio(w.telegram_enabled, o.tga)))]
        doc == Call("send_message", "doctor", send_message(w.telegram_enabled, o.tg2))
    IN  IF ~Truthy(audio)
        THEN Delivered([w2 EXCEPT !.ext_calls = Append(@, doc)],
                       [r1 EXCEPT !.actions_taken = Append(@, "doctor_notify")], FALSE)
        ELSE IF ~IsStr(reason) THEN Delivered(w3, r2, TRUE)
        ELSE Delivered([w4 EXCEPT !.ext_calls = Append(@, doc)],
                       [r2 EXCEPT !.actions_taken = Append(@, "doctor_notify")], FALSE)

\* _deliver_warning: one patient message
deliver_warning(w, patient_id, reason, receipt, o) ==
    LET tg_result == send_message(w.telegram_enabled, o.tg1)
    IN  Delivered([w EXCEPT !.ext_calls = Append(@, Call("send_message", "patient", tg_result)),
                            !.delivery_stats = Bump(@, "telegram_sent")],
                  [receipt EXCEPT !.has_telegram = TRUE, !.telegram_ok = tg_result.ok,
                          !.telegram_response = << tg_result.status_code, tg_result.ok >>,
                          !.actions_taken = Append(@, "telegram_warning")],
                  FALSE)

\* _deliver_info: logged only
deliver_info(w, patient_id, reason, receipt, o) ==
    Delivered(w, [receipt EXCEPT !.actions_taken = Append(@, "logged_only")], FALSE)

\* Database.record_alert: one INSERT into alerts
record_alert(w, alert) == [w EXCEPT !.alerts = Append(@, alert)]

\* mutant: the audit file is opened for writing, not for appending
audit_truncating(w, entry) == [w EXCEPT !.audit_log = << entry >>]

\* Database.audit: one line appended to the audit file
audit(w, entry) == [w EXCEPT !.audit_log = Append(@, entry)]

\* f"severity_{severity}_delivery"
SeverityDeliveryType(severity) ==
    CASE severity = 1 -> "severity_1_delivery"
      [] severity = 2 -> "severity_2_delivery"
      [] severity = 3 -> "severity_3_delivery"
      [] OTHER -> "severity_other_delivery"

\* "tts_alert" in receipt["actions_taken"]
TtsGenerated(receipt) ==
    \E i \in 1..Len(receipt.actions_taken) : receipt.actions_taken[i] = "tts_alert"

\* the row record_alert is asked to insert
AlertRow(patient_id, decision, receipt) ==
    [patient_id |-> patient_id, severity |-> decision.final_severity,
     message |-> decision.reason, action_taken |-> receipt.actions_taken,
     webhook_response |-> receipt.telegram_response,
     tts_generated |-> TtsGenerated(receipt)]

\* the entry deliver hands to audit; reason[:200] is its reason
DeliveryAudit(patient_id, decision, receipt) ==
    [type |-> SeverityDeliveryType(decision.final_severity),
     patient_id |-> Prefix8(patient_id), severity |-> decision.final_severity,
     reason |-> decision.reason, source |-> decision.source,
     anomaly_score |-> Get(decision.ai_decision.anomaly_score, Num(0)),
     actions_taken |-> receipt.actions_taken, telegram_ok |-> receipt.telegram_ok,
     tts_generated |-> TtsGenerated(receipt), raw_data_retained |-> FALSE]

\* deliver after the severity branch (d: what the branch handed on):
\* record_alert, whose INSERT fails on a None message (alerts.message is
\* NOT NULL); audit, whose reason[:200] fails on a reason that is no string;
\* total_actions; return receipt
deliver_record(patient_id, decision, d) ==
    IF d.raised THEN d
    ELSE IF decision.reason.kind = "none" THEN Delivered(d.w, d.receipt, TRUE)
    ELSE IF ~IsStr(decision.reason)
    THEN Delivered(record_alert(d.w, AlertRow(patient_id, decision, d.receipt)), d.receipt, TRUE)
    ELSE Delivered([audit(record_alert(d.w, AlertRow(patient_id, decision, d.receipt)),
                          DeliveryAudit(patient_id, decision, d.receipt))
                    EXCEPT !.delivery_stats = Bump(@, "total_actions"),
                           !.receipts = Append(@, d.receipt)],
                   d.receipt, FALSE)

\* the severity branch of deliver
deliver_actions(w, patient_id, decision, receipt, o) ==
    IF decision.final_severity = 1
    THEN deliver_critical(w, patient_id, decision.reason, receipt, o)
    ELSE IF decision.final_severity = 2
    THEN deliver_warning(w, patient_id, decision.reason, receipt, o)
    ELSE deliver_info(w, patient_id, decision.reason, receipt, o)

\* x in receipt["actions_taken"]
ActionTaken(receipt, x) ==
    \E i \in 1..Len(receipt.actions_taken) : receipt.actions_taken[i] = x

\* What the receipt says about one request made to a collaborator: whether an
\* entry of actions_taken stands for it, whether the receipt has a key with
\* its success, and that key's value.  The patient message has
\* "telegram_alert" / "telegram_warning" and telegram_ok; speech synthesis has
\* "tts_alert" and tts_audio, both only when audio came back; the doctor
\* message has "doctor_notify" and no key; the audio send has neither.
ReceiptEntry(receipt, call) ==
    IF call.api = "send_message" /\ call.purpose = "patient"
    THEN [listed |-> ActionTaken(receipt, "telegram_alert") \/ ActionTaken(receipt, "telegram_warning"),
          has_flag |-> receipt.has_telegram, ok |-> receipt.telegram_ok]
    ELSE IF call.api = "send_message"
    THEN [listed |-> ActionTaken(receipt, "doctor_notify"), has_flag |-> FALSE, ok |-> FALSE]
    ELSE IF call.api = "venice_tts"
    THEN [listed |-> ActionTaken(receipt, "tts_alert"), has_flag |-> receipt.has_tts_audio,
          ok |-> receipt.has_tts_audio]
    ELSE [listed |-> FALSE, has_flag |-> FALSE, ok |-> FALSE]

\* one deliver invocation as the outside sees it: its arguments, the requests
\* it made to the collaborators (those added to the ones made before, w), the
\* receipt it built, and whether it returned it or raised
Invocation(w, patient_id, decision, d) ==
    [patient_id |-> patient_id, decision |-> decision,
     calls |-> SubSeq(d.w.ext_calls, Len(w.ext_calls) + 1, Len(d.w.ext_calls)),
     receipt |-> d.receipt, raised |-> d.raised]

deliver_trace(w, patient_id, decision, d) ==
    [d EXCEPT !.w.deliveries = Append(@, Invocation(w, patient_id, decision, d))]

\* DeliveryEngine.deliver(patient_id, decision) under collaborator outcomes o
deliver(w, patient_id, decision, o) ==
    deliver_trace(w, patient_id, decision,
        deliver_record(patient_id, decision,
            deliver_actions([w EXCEPT !.deliver_calls = @ + 1], patient_id, decision,
                            NewReceipt(patient_id, decision.final_severity, decision.source), o)))

\* ------------------------------------------------------------------------
\* ingestion.py : ephemeral artifacts
\* ------------------------------------------------------------------------
RAW_FILE_TTL == 60

AGENT_INTERVAL == 60

NoPath == 0

\* save_ephemeral: the file is written, then its expiry is registered
save_ephemeral(w, path, t, ttl) ==
    [w EXCEPT !.files = @ \cup {path},
              !.ephemeral_files = [q \in DOMAIN @ \cup {path} |-> IF q = path THEN t + ttl ELSE @[q]]]

Registered(w) == DOMAIN w.ephemeral_files

\* mutant: an entry is swept only after its expiry has passed
ExpiredLate(t, expiry) == t > expiry

\* the test `now >= expiry` of cleanup_expired
Expired(t, expiry) == t >= expiry

\* cleanup_expired at time t: expired entries leave the registry; each file is
\* removed unless os.remove fails (rm_ok = FALSE), which is only logged
cleanup_expired(w, t, rm_ok) ==
    LET to_delete == { q \in Registered(w) : Expired(t, w.ephemeral_files[q]) }
    IN  [w |-> [w EXCEPT !.ephemeral_files = [q \in Registered(w) \ to_delete |-> @[q]],
                         !.files = IF rm_ok THEN @ \ to_delete ELSE @],
         deleted |-> Cardinality(to_delete)]

\* mutant: the whole registry is dropped with the entry
delete_immediately_clearing(w, filepath, rm_ok) ==
    [w EXCEPT !.ephemeral_files = [q \in {} |-> 0],
              !.files = IF rm_ok THEN @ \ {filepath} ELSE @]

\* delete_immediately: pop from the registry, remove the file if it exists
delete_immediately(w, filepath, rm_ok) ==
    [w EXCEPT !.ephemeral_files = [q \in Registered(w) \ {filepath} |-> @[q]],
              !.files = IF rm_ok THEN @ \ {filepath} ELSE @]

\* IngestedItem
IngestedItem(session_id, input_type, patient_id, file_path, raw_bytes, text) ==
    [session_id |-> session_id, input_type |-> input_type, patient_id |-> patient_id,
     file_path |-> file_path, raw_bytes |-> raw_bytes, text |-> text]

NoText == [present |-> FALSE, metric |-> "", value |-> 0, colons |-> 0]

FreeText == [present |-> TRUE, metric |-> "", value |-> 0, colons |-> 0]

\* ingest_vital: text = f"{metric_type}: {value} {unit}".  A unit is the
\* list of its parts between colons (<< "mmHg" >>, << "mm", "Hg" >>), so the
\* text has as many colons as the unit has parts.
VitalText(metric_type, value, unit) ==
    [present |-> TRUE, metric |-> metric_type, value |-> value, colons |-> Len(unit)]

\* ------------------------------------------------------------------------
\* inference.py : the AI collaborators as seen by the pipeline
\* ------------------------------------------------------------------------
\* mutant: a failed analysis is reported as an alert with a high score
akashml_analyze_alarming(resp) ==
    IF resp.kind = "json" THEN resp.body
    ELSE [decision |-> "alert", anomaly_score |-> Num(90), reason |-> Str("analysis failed")]

\* akashml_analyze: the parsed object as it is, the parse-error default on
\* unparsable output, the error default on any other exception (a timeout, or
\* JSON that is not an object)
akashml_analyze(resp) ==
    IF resp.kind = "json" THEN resp.body
    ELSE IF resp.kind = "unparsable"
    THEN [decision |-> "monitor", anomaly_score |-> Num(30), reason |-> Str("analysis parse error")]
    ELSE [decision |-> "monitor", anomaly_score |-> Num(0), reason |-> Absent]

\* akashml_soap_note
akashml_soap_note(resp) ==
    IF resp.kind = "json" THEN resp.body
    ELSE IF resp.kind = "unparsable"
    THEN [urgency |-> "routine", pain_level |-> Absent, assessment |-> Str("raw output")]
    ELSE [urgency |-> "routine", pain_level |-> Absent, assessment |-> Absent]

\* soap.get("urgency", "routine")
Urgency(soap) == IF soap.urgency = "absent" THEN "routine" ELSE soap.urgency

\* mutant: an urgent note scores 0.1 higher
soap_decision_raised(soap, urgent_score, routine_score) ==
    [decision |-> Urgency(soap),
     anomaly_score |-> Num(IF soap.urgency \in {"urgent", "emergency"}
                           THEN urgent_score + 10 ELSE routine_score),
     reason |-> Get(soap.assessment, Str(""))]

\* the ai_decision built from a SOAP note, with the two scores of the pipeline
soap_decision(soap, urgent_score, routine_score) ==
    [decision |-> Urgency(soap),
     anomaly_score |-> Num(IF soap.urgency \in {"urgent", "emergency"}
                           THEN urgent_score ELSE routine_score),
     reason |-> Get(soap.assessment, Str(""))]

\* ------------------------------------------------------------------------
\* agent.py : the pipelines of process_event
\* ------------------------------------------------------------------------
NoReceipt == NewReceipt(<< "", "" >>, 0, "")

NewResult(item) ==
    [session_id |-> item.session_id, input_type |-> item.input_type,
     has_decision |-> FALSE, decision |-> NotCalled,
     has_delivery |-> FALSE, delivery |-> NoReceipt,
     error |-> "", raw_deleted |-> FALSE, returned |-> TRUE]

Outcome(w, raised, error, result) ==
    [w |-> w, raised |-> raised, error |-> error, result |-> result]

\* Database.record_vital seen through get_latest_vitals
record_vital(w, patient_id, metric, value) ==
    [w EXCEPT !.latest_vitals[patient_id] =
        [m \in DOMAIN @ \cup {metric} |-> IF m = metric THEN Wrapped(value) ELSE @[m]]]

\* context["latest_vitals"][metric] = {"value": value, "unit": unit}
WithVital(latest, metric, value) ==
    [m \in DOMAIN latest \cup {metric} |-> IF m = metric THEN Wrapped(value) ELSE latest[m]]

\* Database.record_log: one INSERT into logs
record_log(w, item, combined, receipt, has_delivery, score) ==
    [w EXCEPT !.logs = Append(@,
        [patient_id |-> item.patient_id, session_id |-> item.session_id,
         input_type |-> item.input_type, decision |-> combined.final_decision,
         reason |-> combined.reason,
         action_taken |-> IF has_delivery THEN receipt.actions_taken ELSE << "logged" >>,
         anomaly_score |-> score])]

\* combined["final_decision"] in ("alert", "escalate")
AlertWorthy(combined) == combined.final_decision \in {"alert", "escalate"}

\* result after result["decision"] = combined and, when deliver was called
\* and returned, result["delivery"] = receipt
WithDecision(result, combined, d) ==
    IF AlertWorthy(combined) /\ ~d.raised
    THEN [result EXCEPT !.has_decision = TRUE, !.decision = combined,
                        !.has_delivery = TRUE, !.delivery = d.receipt]
    ELSE [result EXCEPT !.has_decision = TRUE, !.decision = combined]

\* The end of each pipeline (d: what the delivery step handed on): an exception
\* of deliver goes up; otherwise db.record_log, whose argument
\* combined["reason"][:300] fails on a reason that is no string.  The result
\* dict is mutated in place, so what was set before a raise stays on it.
log_decision(item, ai_decision, result, o, combined, d) ==
    IF d.raised THEN Outcome(d.w, TRUE, "deliver failed", WithDecision(result, combined, d))
    ELSE IF ~IsStr(combined.reason)
    THEN Outcome(d.w, TRUE, "TypeError", WithDecision(result, combined, d))
    ELSE IF o.fault = "record_log"
    THEN Outcome(d.w, TRUE, "record_log failed", WithDecision(result, combined, d))
    ELSE Outcome(record_log(d.w, item, combined, d.receipt, AlertWorthy(combined),
                            Get(ai_decision.anomaly_score, Num(0))),
                 FALSE, "", WithDecision(result, combined, d))

\* what each pipeline does with the fused decision: delivery when it is
\* alert-worthy, then the log record
act_on_decision(w, item, ai_decision, result, o, combined) ==
    IF combined.raised THEN Outcome(w, TRUE, combined.error, result)
    ELSE log_decision(item, ai_decision, result, o, combined,
             IF AlertWorthy(combined)
             THEN deliver(w, item.patient_id, combined, o.delivery)
             ELSE Delivered(w, NoReceipt, FALSE))

\* The common tail of the four pipelines: rules, fusion, delivery when
\* alert-worthy, log record
decide_and_deliver(w, item, latest, ai_decision, result, o) ==
    act_on_decision(w, item, ai_decision, result, o,
                    combine_decisions(evaluate_rules(latest), ai_decision))

\* _process_photo: vision, analysis, then the common tail
process_photo(w, item, context, result, o) ==
    LET w1 == [w EXCEPT !.venice_endpoints_used = @ \cup {"vision"},
                        !.stats = Bump(Bump(@, "venice_calls"), "venice_calls")]
        ai_analysis == akashml_analyze(o.ai)
    IN  decide_and_deliver(w1, item, context.latest_vitals, ai_analysis, result, o)

\* float(soap["pain_level"]) when the note carries a pain level
PainGiven(soap) == soap.pain_level.t \notin {"absent", "none"}

PainParses(soap) == soap.pain_level.t = "num"

\* the SOAP part shared by the voice and text pipelines
process_soap(w, item, context, result, o, source, urgent_score, routine_score) ==
    LET soap == akashml_soap_note(o.soap)
        w1 == [w EXCEPT !.stats = Bump(@, "venice_calls")]
    IN  IF PainGiven(soap) /\ ~PainParses(soap) THEN Outcome(w1, TRUE, "ValueError", result)
        ELSE LET w2 == IF PainGiven(soap)
                       THEN record_vital(w1, item.patient_id, "pain_level", soap.pain_level.v)
                       ELSE w1
                 latest == IF PainGiven(soap)
                           THEN WithVital(context.latest_vitals, "pain_level", soap.pain_level.v)
                           ELSE context.latest_vitals
             IN  decide_and_deliver(w2, item, latest,
                                    soap_decision(soap, urgent_score, routine_score), result, o)

\* _process_voice: an empty transcript ends the pipeline with an error
process_voice(w, item, context, result, o) ==
    LET w1 == [w EXCEPT !.venice_endpoints_used = @ \cup {"audio/transcriptions"},
                        !.stats = Bump(@, "venice_calls")]
    IN  IF o.stt = "empty"
        THEN Outcome(w1, FALSE, "", [result EXCEPT !.error = "STT returned empty"])
        ELSE process_soap(w1, item, context, result, o, "voice", 70, 30)

\* _process_text
process_text(w, item, context, result, o) ==
    process_soap(w, item, context, result, o, "text", 60, 20)

\* _process_vital_event: "metric: value unit" is split on ":"
process_vital_event(w, item, context, result, o) ==
    LET parsed == item.text.colons = 1
        w1 == IF parsed THEN record_vital(w, item.patient_id, item.text.metric, item.text.value)
              ELSE w
        latest == IF parsed
                  THEN WithVital(context.latest_vitals, item.text.metric, item.text.value)
                  ELSE context.latest_vitals
    IN  decide_and_deliver(w1, item, latest,
            [decision |-> "normal", anomaly_score |-> Num(0), reason |-> Str("vital recorded")],
            result, o)

\* MemoryManager.load_context
load_context(w, patient_id) == [latest_vitals |-> w.latest_vitals[patient_id]]

\* the branch of process_event on input_type and payload
dispatch(w, item, context, result, o) ==
    IF item.input_type = "photo" /\ item.raw_bytes THEN process_photo(w, item, context, result, o)
    ELSE IF item.input_type = "voice" /\ item.raw_bytes THEN process_voice(w, item, context, result, o)
    ELSE IF item.input_type = "text" /\ item.text.present THEN process_text(w, item, context, result, o)
    ELSE IF item.input_type = "vital" /\ item.text.present
    THEN process_vital_event(w, item, context, result, o)
    ELSE Outcome(w, FALSE, "", result)

\* process_event after the pipeline (p: what the pipeline left): the raw file
\* is deleted on both paths; an exception of the pipeline is caught and
\* recorded on the result
end_event(item, o, p) ==
    IF ~p.raised
    THEN Outcome([(IF item.file_path # NoPath
                   THEN delete_immediately(p.w, item.file_path, o.rm_ok) ELSE p.w)
                  EXCEPT !.stats = Bump(@, "events_processed")],
                 FALSE, "", [p.result EXCEPT !.raw_deleted = (item.file_path # NoPath)])
    ELSE Outcome(IF item.file_path # NoPath
                 THEN delete_immediately(p.w, item.file_path, o.rm_ok) ELSE p.w,
                 FALSE, "", [p.result EXCEPT !.error = p.error])

\* HealthGuardAgent.process_event.  load_context runs before the try block,
\* so its exception leaves process_event (raised = TRUE, nothing returned).
process_event(w, item, o) ==
    IF o.fault = "load_context"
    THEN Outcome(w, TRUE, "load_context failed", [NewResult(item) EXCEPT !.returned = FALSE])
    ELSE end_event(item, o,
             dispatch(w, item, load_context(w, item.patient_id), NewResult(item), o))

\* ------------------------------------------------------------------------
\* agent.py : the periodic per-patient review of autonomous_loop
\* ------------------------------------------------------------------------
\* akashml_loop_decision: the parsed object as it is, the idle default on any
\* exception
akashml_loop_decision(resp) ==
    IF resp.kind = "json" THEN resp.body
    ELSE [action |-> "idle", severity |-> Num(3), reason |-> Str("decision error")]

\* loop_decision.get("action") in ("alert_patient", "alert_doctor")
LoopAlerts(loop_decision) == loop_decision.action \in {"alert_patient", "alert_doctor"}

\* the decision dict the review hands to deliver
loop_alert(loop_decision) ==
    Fused("alert", Get(loop_decision.severity, Num(2)).v,
          AiReason(loop_decision, "Autonomous loop alert"), "ai_autonomous_loop", FALSE, << >>,
          [decision |-> "absent", anomaly_score |-> Absent, reason |-> loop_decision.reason])

\* format_for_ai(context) != "No patient data available yet.": the patient has
\* a vital, a log record or an alert
HasHistory(w, patient_id) ==
    \/ DOMAIN w.latest_vitals[patient_id] # {}
    \/ \E n \in 1..Len(w.logs) : w.logs[n].patient_id = patient_id
    \/ \E n \in 1..Len(w.alerts) : w.alerts[n].patient_id = patient_id

\* one iteration of `for p in patients` as the outside sees it (w0, w1: the
\* world before and after): what became of the patient, the deliver
\* invocations and the audit entries it added, and whether an exception left
\* the loop
Visited(w0, w1, patient_id, outcome, raised) ==
    [w |-> [w1 EXCEPT !.reviews = [@ EXCEPT ![Len(w1.reviews)].visits =
                Append(@, [patient_id |-> patient_id, outcome |-> outcome,
                           deliveries |-> (Len(w0.deliveries) + 1)..Len(w1.deliveries),
                           audits |-> (Len(w0.audit_log) + 1)..Len(w1.audit_log)])]],
     raised |-> raised]

review_deliver(w, patient_id, loop_decision, d) ==
    Visited(w, d.w, patient_id, loop_decision.action, d.raised)

\* the body of the loop once the patient has history: the loop decision, the
\* call counter, deliver when the decision asks for an alert
review_decide(w, patient_id, loop_decision, o) ==
    IF LoopAlerts(loop_decision)
    THEN review_deliver(w, patient_id, loop_decision,
             deliver([w EXCEPT !.stats = Bump(@, "venice_calls")], patient_id,
                     loop_alert(loop_decision), o.delivery))
    ELSE Visited(w, [w EXCEPT !.stats = Bump(@, "venice_calls")], patient_id,
                 "no_alert", FALSE)

\* one iteration of `for p in patients`; an exception of load_context or of
\* deliver leaves the loop
review_patient(w, patient_id, o) ==
    IF o.fault = "load_context" THEN Visited(w, w, patient_id, "fault", TRUE)
    ELSE IF ~HasHistory(w, patient_id) THEN Visited(w, w, patient_id, "no_history", FALSE)
    ELSE review_decide(w, patient_id, akashml_loop_decision(o.loop), o)

\* ------------------------------------------------------------------------
\* State
\* ------------------------------------------------------------------------
VARIABLES
    arg_rule_results,       \* combine_decisions: argument rule_results
    arg_ai_decision,        \* combine_decisions: argument ai_decision
    ret_combined,           \* combine_decisions: returned dict
    telegram_enabled,       \* TelegramClient.enabled
    workload,               \* what the clients upload and how the collaborators answer
    latest_vitals,          \* Database: latest value per patient and metric
    alerts,                 \* Database: table alerts, in insertion order
    logs,                   \* Database: table logs, in insertion order
    audit_log,              \* Database: the audit file, line by line
    delivery_stats,         \* DeliveryEngine.stats
    stats,                  \* HealthGuardAgent.stats
    venice_endpoints_used,  \* HealthGuardAgent.venice_endpoints_used
    ext_calls,              \* requests made to Telegram and to speech synthesis
    receipts,               \* the receipts returned by deliver, in call order
    deliver_calls,          \* how many times deliver has been entered
    deliveries,             \* the deliver invocations that ended, in call order
    reviews,                \* the per-patient reviews of the ticks, one record per run
    ephemeral_files,        \* ingestion._ephemeral_files: path -> expiry
    files,                  \* raw files on disk
    now,                    \* time.time()
    items,                  \* the IngestedItems created so far, by session id
    handler_pc,             \* per item: where its upload request handler stands
    expiry_of,              \* per item: the expiry registered at save (0: no file)
    queue,                  \* EventQueue._queue (session ids)
    lock,                   \* EventQueue._lock: 0 free, i handler i, -t thread t
    running,                \* HealthGuardAgent.running
    loop_count,             \* HealthGuardAgent.loop_count
    pc,                     \* per scheduler thread: its position in autonomous_loop
    events,                 \* per scheduler thread: the local list `events`
    pos,                    \* per scheduler thread: index of the next element of its for loop
    wake,                   \* per scheduler thread: when time.sleep returns
    drains,                 \* the lists returned by get_pending, in order
    processed,              \* per item: the process_event calls that ended
    stop_returned,          \* stop() has returned and start() was not called since
    started,                \* number of start() calls so far
    ingestion_call,         \* the last deletion call made on ingestion.py from outside
    arg_vitals,             \* evaluate_rules: the readings of the snapshot, per metric
    rule_calls,             \* evaluate_rules: the calls made, snapshot and returned list
    report_requests         \* the doctor_report / patient_briefing requests, each with its
                            \* handler's position and the counter value it holds

fusionVars == << arg_rule_results, arg_ai_decision, ret_combined >>

rulesVars == << arg_vitals, rule_calls >>

reportVars == << report_requests >>

configVars == << telegram_enabled, workload >>

callVars == << ingestion_call >>

worldVars ==
    << latest_vitals, alerts, logs, audit_log, delivery_stats, stats,
       venice_endpoints_used, ext_calls, receipts, deliver_calls, deliveries, reviews,
       ephemeral_files, files >>

uploadVars == << items, handler_pc, expiry_of >>

queueVars == << queue, lock, drains >>

threadVars == << running, loop_count, pc, events, pos, wake, stop_returned, started >>

vars ==
    << fusionVars, rulesVars, reportVars, configVars, callVars, worldVars, now, uploadVars, queueVars,
       threadVars, processed >>

\* ------------------------------------------------------------------------
\* Bounds and input sets of the state machine
\* ------------------------------------------------------------------------
MaxItems == 1

MaxTickItems == 2

MaxThreads == 2

MaxLoops == 3

MaxTime == 120

MaxDeliveries == 2

MaxQueueItems == 3

MaxLifecycleItems == 1

MaxArtifacts == 2

MaxReviewLoops == 5

MaxReviewTime == 240

MaxReviewItems == 1

TimeStep == AGENT_INTERVAL \div 2

Threads == 1..MaxThreads

\* demo-patient-001 and demo-patient-002: the same first eight characters
Patient1 == << "demo-pat", "ient-001" >>

Patient2 == << "demo-pat", "ient-002" >>

Patients == { Patient1, Patient2 }

NoSnapshot == [m \in {} |-> Wrapped(0)]

\* what the database may hold when the run starts: nothing, or a raised
\* systolic pressure for the first patient and a critical one for the second
StoredVitals ==
    { [p \in Patients |-> NoSnapshot],
      [p \in Patients |-> IF p = Patient1 THEN [bp_systolic |-> Wrapped(155)]
                                           ELSE [bp_systolic |-> Wrapped(185)]] }

World ==
    [telegram_enabled |-> telegram_enabled, latest_vitals |-> latest_vitals,
     alerts |-> alerts, logs |-> logs, audit_log |-> audit_log,
     delivery_stats |-> delivery_stats, stats |-> stats,
     venice_endpoints_used |-> venice_endpoints_used, ext_calls |-> ext_calls,
     receipts |-> receipts, deliver_calls |-> deliver_calls, deliveries |-> deliveries,
     reviews |-> reviews,
     ephemeral_files |-> ephemeral_files, files |-> files]

SetWorld(w) ==
    /\ latest_vitals' = w.latest_vitals
    /\ alerts' = w.alerts
    /\ logs' = w.logs
    /\ audit_log' = w.audit_log
    /\ delivery_stats' = w.delivery_stats
    /\ stats' = w.stats
    /\ venice_endpoints_used' = w.venice_endpoints_used
    /\ ext_calls' = w.ext_calls
    /\ receipts' = w.receipts
    /\ deliver_calls' = w.deliver_calls
    /\ deliveries' = w.deliveries
    /\ reviews' = w.reviews
    /\ ephemeral_files' = w.ephemeral_files
    /\ files' = w.files

\* a deletion call on ingestion.py: the function, its argument, the registry
\* and the disk it found, and what it returned
DeletionCall(op, filepath, w, deleted) ==
    [op |-> op, filepath |-> filepath, ephemeral_files |-> w.ephemeral_files,
     files |-> w.files, deleted |-> deleted]

NoCall == DeletionCall("none", NoPath, [ephemeral_files |-> [q \in {} |-> 0], files |-> {}], 0)

\* HealthGuardAgent.__init__, DeliveryEngine.__init__, EventQueue.__init__ and
\* the module state of ingestion.py
InitAgent ==
    /\ alerts = << >>
    /\ logs = << >>
    /\ audit_log = << >>
    /\ delivery_stats = [telegram_sent |-> 0, tts_generated |-> 0,
                         reports_generated |-> 0, total_actions |-> 0]
    /\ stats = [venice_calls |-> 0, akashml_calls |-> 0, events_processed |-> 0,
                loop_iterations |-> 0]
    /\ venice_endpoints_used = {}
    /\ ext_calls = << >>
    /\ receipts = << >>
    /\ deliver_calls = 0
    /\ deliveries = << >>
    /\ reviews = << >>
    /\ ephemeral_files = [q \in {} |-> 0]
    /\ files = {}
    /\ now = 0
    /\ items = << >>
    /\ handler_pc = << >>
    /\ expiry_of = << >>
    /\ queue = << >>
    /\ lock = 0
    /\ running = FALSE
    /\ loop_count = 0
    /\ events = [t \in Threads |-> << >>]
    /\ pos = [t \in Threads |-> 1]
    /\ wake = [t \in Threads |-> 0]
    /\ drains = << >>
    /\ processed = << >>
    /\ stop_returned = FALSE
    /\ ingestion_call = NoCall
    /\ report_requests = << >>

RulesIdle ==
    /\ arg_vitals = [m \in {} |-> 0]
    /\ rule_calls = << >>

FusionIdle ==
    /\ arg_rule_results = << >>
    /\ arg_ai_decision = [decision |-> "absent", anomaly_score |-> Absent, reason |-> Absent]
    /\ ret_combined = NotCalled

\* ------------------------------------------------------------------------
\* gateway.py : the upload endpoints
\* ------------------------------------------------------------------------
\* ingest_photo / ingest_voice: the raw file is saved with the configured TTL
ingest_file(w, n, input_type, patient_id, t) ==
    [w |-> save_ephemeral(w, n, t, RAW_FILE_TTL),
     item |-> IngestedItem(n, input_type, patient_id, n, TRUE, NoText)]

\* ingest_text: no file
ingest_text(w, n, patient_id) ==
    [w |-> w, item |-> IngestedItem(n, "text", patient_id, NoPath, FALSE, FreeText)]

\* record_vital of the gateway: the vital is written to the database, then
\* ingest_vital builds the item
ingest_vital(w, n, patient_id, metric_type, value, unit) ==
    [w |-> record_vital(w, patient_id, metric_type, value),
     item |-> IngestedItem(n, "vital", patient_id, NoPath, FALSE, VitalText(metric_type, value, unit))]

Request(input_type, patient_id, metric, value) ==
    [input_type |-> input_type, patient_id |-> patient_id, metric |-> metric, value |-> value]

\* a vital submitted with a unit
VitalRequest(patient_id, metric, value, unit) ==
    [input_type |-> "vital", patient_id |-> patient_id, metric |-> metric, value |-> value,
     unit |-> unit]

\* unit: str = Form("")
UnitOf(req) == IF "unit" \in DOMAIN req THEN req.unit ELSE << "" >>

\* upload_photo, voice_note, submit_symptom, record_vital up to the item
UploadRequest ==
    /\ Len(items) < workload.max_items
    /\ \E req \in workload.requests :
        LET n == Len(items) + 1
            g == IF req.input_type \in {"photo", "voice"}
                 THEN ingest_file(World, n, req.input_type, req.patient_id, now)
                 ELSE IF req.input_type = "text" THEN ingest_text(World, n, req.patient_id)
                 ELSE ingest_vital(World, n, req.patient_id, req.metric, req.value, UnitOf(req))
        IN  /\ items' = Append(items, g.item)
            /\ expiry_of' = Append(expiry_of, IF g.item.file_path # NoPath
                                              THEN g.w.ephemeral_files[n] ELSE 0)
            /\ SetWorld(g.w)
    /\ handler_pc' = Append(handler_pc, "ingested")
    /\ processed' = Append(processed, << >>)
    /\ UNCHANGED << fusionVars, rulesVars, reportVars, configVars, callVars, now, queueVars, threadVars >>

\* ------------------------------------------------------------------------
\* agent.py : EventQueue
\* ------------------------------------------------------------------------
\* mutant: the lock is never waited for
LockIgnored(l) == TRUE

\* `with self._lock:` can be entered only while nobody holds the lock
LockFree(l) == l = 0

\* push, entering the with block
PushAcquire(i) ==
    /\ handler_pc[i] = "ingested"
    /\ LockFree(lock)
    /\ lock' = i
    /\ handler_pc' = [handler_pc EXCEPT ![i] = "locked"]
    /\ UNCHANGED << fusionVars, rulesVars, reportVars, configVars, callVars, worldVars, now, items, expiry_of,
                    queue, drains, threadVars, processed >>

\* push: self._queue.append(item), leaving the with block
PushAppend(i) ==
    /\ handler_pc[i] = "locked"
    /\ queue' = Append(queue, i)
    /\ lock' = 0
    /\ handler_pc' = [handler_pc EXCEPT ![i] = "pushed"]
    /\ UNCHANGED << fusionVars, rulesVars, reportVars, configVars, callVars, worldVars, now, items, expiry_of,
                    drains, threadVars, processed >>

UploadAuditType(input_type) ==
    CASE input_type = "photo" -> "photo_uploaded"
      [] input_type = "voice" -> "voice_uploaded"
      [] input_type = "text" -> "symptom_submitted"
      [] OTHER -> "vital_recorded"

\* the _db.audit call that ends each upload endpoint
UploadAudit(i) ==
    /\ handler_pc[i] = "pushed"
    /\ handler_pc' = [handler_pc EXCEPT ![i] = "done"]
    /\ SetWorld(audit(World, [type |-> UploadAuditType(items[i].input_type),
                              patient_id |-> Prefix8(items[i].patient_id),
                              session_id |-> items[i].session_id]))
    /\ UNCHANGED << fusionVars, rulesVars, reportVars, configVars, callVars, now, items, expiry_of, queueVars,
                    threadVars, processed >>

\* get_pending, entering the with block: items = list(self._queue)
GetPendingCopy(t) ==
    /\ pc[t] = "drain"
    /\ LockFree(lock)
    /\ lock' = -t
    /\ events' = [events EXCEPT ![t] = queue]
    /\ pos' = [pos EXCEPT ![t] = 1]
    /\ pc' = [pc EXCEPT ![t] = "drain_clear"]
    /\ UNCHANGED << fusionVars, rulesVars, reportVars, configVars, callVars, worldVars, now, uploadVars, queue, drains,
                    running, loop_count, wake, stop_returned, started, processed >>

ReviewPeriod == 5

\* if self.loop_count % 5 == 0
ReviewDue(count) == count % ReviewPeriod = 0

\* mutant: the per-patient review comes before the drained items
ReviewBeforeEvents(evs, count) ==
    IF ReviewDue(count) THEN "review_begin" ELSE IF evs = << >> THEN "sweep" ELSE "process"

\* after the drain: the for loop over the drained items, then the cleanup
AfterDrain(evs, count) == IF evs = << >> THEN "sweep" ELSE "process"

\* get_pending: self._queue.clear(), leaving the with block, return items
GetPendingClear(t) ==
    /\ pc[t] = "drain_clear"
    /\ queue' = << >>
    /\ lock' = 0
    /\ drains' = Append(drains, events[t])
    /\ pc' = [pc EXCEPT ![t] = AfterDrain(events[t], loop_count)]
    /\ UNCHANGED << fusionVars, rulesVars, reportVars, configVars, callVars, worldVars, now, uploadVars,
                    running, loop_count, events, pos, wake, stop_returned, started, processed >>

\* ------------------------------------------------------------------------
\* agent.py : autonomous_loop, start, stop
\* ------------------------------------------------------------------------
NoJson == [decision |-> "absent", anomaly_score |-> Absent, reason |-> Absent]

\* what the analysis model may answer to akashml_analyze
AnalyzeResponses ==
    { [kind |-> "exception", body |-> NoJson], [kind |-> "unparsable", body |-> NoJson] }
    \cup { [kind |-> "json", body |-> b] :
             b \in { [decision |-> "normal", anomaly_score |-> Num(10), reason |-> Str("ai reason")],
                     [decision |-> "alert", anomaly_score |-> Num(75), reason |-> Str("ai reason")],
                     [decision |-> "alert", anomaly_score |-> NoneValue, reason |-> Str("ai reason")],
                     [decision |-> "alert", anomaly_score |-> Num(90), reason |-> NoneValue],
                     [decision |-> "monitor", anomaly_score |-> Num(50), reason |-> NoneValue],
                     [decision |-> "monitor", anomaly_score |-> Absent, reason |-> Absent] } }

NoSoap == [urgency |-> "absent", pain_level |-> Absent, assessment |-> Absent]

\* what the model may answer to akashml_soap_note
SoapResponses ==
    { [kind |-> "exception", body |-> NoSoap], [kind |-> "unparsable", body |-> NoSoap] }
    \cup { [kind |-> "json", body |-> b] :
             b \in { [urgency |-> "routine", pain_level |-> NoneValue, assessment |-> Str("a")],
                     [urgency |-> "emergency", pain_level |-> Num(9), assessment |-> Str("a")],
                     [urgency |-> "urgent", pain_level |-> StrValue, assessment |-> Str("a")],
                     [urgency |-> "urgent", pain_level |-> NoneValue, assessment |-> Str("a")],
                     [urgency |-> "emergency", pain_level |-> Num(7), assessment |-> Str("a")] } }

AllUp == [tg1 |-> "200", tts |-> "audio", tga |-> "200", tg2 |-> "200"]

AllDown == [tg1 |-> "exception", tts |-> "failed", tga |-> "200", tg2 |-> "500"]

NoLoopJson == [action |-> "absent", severity |-> Absent, reason |-> Absent]

NoOutcome ==
    [ai |-> [kind |-> "exception", body |-> NoJson], soap |-> [kind |-> "exception", body |-> NoSoap],
     loop |-> [kind |-> "exception", body |-> NoLoopJson],
     stt |-> "text", delivery |-> AllUp, fault |-> "none", rm_ok |-> TRUE, delay |-> 0]

\* the collaborator outcomes that matter to an item of the given type
PipelineOutcomes(item) ==
    { [NoOutcome EXCEPT !.ai = a, !.soap = s, !.stt = x, !.delivery = d, !.fault = f,
                        !.delay = dl] :
        a \in IF item.input_type = "photo" THEN workload.analyze ELSE {NoOutcome.ai},
        s \in IF item.input_type \in {"voice", "text"} THEN workload.soap ELSE {NoOutcome.soap},
        x \in IF item.input_type = "voice" THEN workload.stt ELSE {"text"},
        d \in workload.delivery,
        f \in workload.faults,
        dl \in workload.delays }

\* start(): a new daemon thread that will run autonomous_loop
Start ==
    /\ started < MaxThreads
    /\ started' = started + 1
    /\ pc' = [pc EXCEPT ![started + 1] = "entry"]
    /\ stop_returned' = FALSE
    /\ UNCHANGED << fusionVars, rulesVars, reportVars, configVars, callVars, worldVars, now, uploadVars, queueVars,
                    running, loop_count, events, pos, wake, processed >>

\* stop(): self.running = False
Stop ==
    /\ started > 0
    /\ running' = FALSE
    /\ stop_returned' = TRUE
    /\ UNCHANGED << fusionVars, rulesVars, reportVars, configVars, callVars, worldVars, now, uploadVars, queueVars,
                    loop_count, pc, events, pos, wake, started, processed >>

\* autonomous_loop, first statement: self.running = True
ThreadEntry(t) ==
    /\ pc[t] = "entry"
    /\ running' = TRUE
    /\ pc' = [pc EXCEPT ![t] = "check"]
    /\ UNCHANGED << fusionVars, rulesVars, reportVars, configVars, callVars, worldVars, now, uploadVars, queueVars,
                    loop_count, events, pos, wake, stop_returned, started, processed >>

\* while self.running:
LoopCheck(t) ==
    /\ pc[t] = "check"
    /\ pc' = [pc EXCEPT ![t] = IF running THEN "tick" ELSE "exited"]
    /\ UNCHANGED << fusionVars, rulesVars, reportVars, configVars, callVars, worldVars, now, uploadVars, queueVars,
                    running, loop_count, events, pos, wake, stop_returned, started, processed >>

\* self.loop_count += 1; self.stats["loop_iterations"] = self.loop_count
TickBegin(t) ==
    /\ pc[t] = "tick"
    /\ loop_count < workload.max_loops
    /\ loop_count' = loop_count + 1
    /\ stats' = [stats EXCEPT !.loop_iterations = loop_count + 1]
    /\ pc' = [pc EXCEPT ![t] = "drain"]
    /\ UNCHANGED << fusionVars, rulesVars, reportVars, configVars, callVars, latest_vitals, alerts, logs, audit_log,
                    delivery_stats, venice_endpoints_used, ext_calls, receipts, deliver_calls,
                    deliveries, reviews, ephemeral_files, files, now, uploadVars, queueVars,
                    running, events, pos, wake, stop_returned, started, processed >>

\* mutant: an exception that leaves the try block ends the thread
ThreadDies == "exited"

\* except Exception: the error is logged and the tick goes on to time.sleep
AfterException == "sleep"

\* what the tick does when process_event(items[i]) ends with r
AfterEvent(t, i, o, r) ==
    /\ now + o.delay <= workload.max_time
    /\ now' = now + o.delay
    /\ SetWorld(r.w)
    /\ processed' = [processed EXCEPT ![i] =
          Append(@, [result |-> r.result,
                     worst_rule |-> MinSeverity(evaluate_rules(latest_vitals[items[i].patient_id])),
                     latest |-> latest_vitals[items[i].patient_id],
                     fault |-> o.fault, tick |-> loop_count,
                     answer |-> [ai |-> o.ai.kind, soap |-> o.soap.kind, stt |-> o.stt],
                     audits |-> (Len(audit_log) + 1)..Len(r.w.audit_log),
                     deliveries |-> (Len(deliveries) + 1)..Len(r.w.deliveries),
                     alert_records |-> (Len(alerts) + 1)..Len(r.w.alerts),
                     log_records |-> (Len(logs) + 1)..Len(r.w.logs)])]
    /\ pc' = [pc EXCEPT ![t] = IF r.raised THEN AfterException
                               ELSE IF pos[t] = Len(events[t]) THEN "sweep"
                               ELSE "process"]
    /\ pos' = [pos EXCEPT ![t] = IF r.raised THEN @ ELSE @ + 1]

\* mutant: the list is walked from its end
LastEventFirst(evs, p) == evs[Len(evs) + 1 - p]

\* `for event in events`: the p-th iteration takes the p-th element
NextEvent(evs, p) == evs[p]

\* one iteration of `for event in events: self.process_event(event)`; an
\* exception that leaves process_event ends the try block of the tick
ProcessEvent(t) ==
    /\ pc[t] = "process"
    /\ pos[t] <= Len(events[t])
    /\ \E o \in PipelineOutcomes(items[NextEvent(events[t], pos[t])]) :
          AfterEvent(t, NextEvent(events[t], pos[t]), o,
                     process_event(World, items[NextEvent(events[t], pos[t])], o))
    /\ UNCHANGED << fusionVars, rulesVars, reportVars, configVars, callVars, uploadVars, queueVars,
                    running, loop_count, events, wake, stop_returned, started >>

\* deleted = ingestion.cleanup_expired(), then the test of the per-patient
\* review: if self.loop_count % 5 == 0
Sweep(t) ==
    /\ pc[t] = "sweep"
    /\ \E rm_ok \in BOOLEAN : SetWorld(cleanup_expired(World, now, rm_ok).w)
    /\ pc' = [pc EXCEPT ![t] = IF ReviewDue(loop_count) THEN "review_begin" ELSE "sleep"]
    /\ UNCHANGED << fusionVars, rulesVars, reportVars, configVars, callVars, now, uploadVars, queueVars,
                    running, loop_count, events, pos, wake, stop_returned, started, processed >>

\* time.sleep(self.config.agent_interval), entered
Sleep(t) ==
    /\ pc[t] = "sleep"
    /\ wake' = [wake EXCEPT ![t] = now + AGENT_INTERVAL]
    /\ pc' = [pc EXCEPT ![t] = "sleeping"]
    /\ UNCHANGED << fusionVars, rulesVars, reportVars, configVars, callVars, worldVars, now, uploadVars, queueVars,
                    running, loop_count, events, pos, stop_returned, started, processed >>

\* time.sleep returns
Wake(t) ==
    /\ pc[t] = "sleeping"
    /\ now >= wake[t]
    /\ pc' = [pc EXCEPT ![t] = "check"]
    /\ UNCHANGED << fusionVars, rulesVars, reportVars, configVars, callVars, worldVars, now, uploadVars, queueVars,
                    running, loop_count, events, pos, wake, stop_returned, started, processed >>

\* Time passes while every scheduler thread is asleep (or none runs); inside a
\* tick time passes only in the blocking calls of ProcessEvent.
TimePasses ==
    /\ \A t \in Threads : \/ pc[t] \in {"unborn", "exited"}
                          \/ pc[t] = "sleeping" /\ now < wake[t]
    /\ now + TimeStep <= workload.max_time
    /\ now' = now + TimeStep
    /\ UNCHANGED << fusionVars, rulesVars, reportVars, configVars, callVars, worldVars, uploadVars, queueVars,
                    threadVars, processed >>

\* db.list_patients(), newest first
KnownPatients == << Patient2, Patient1 >>

\* what the collaborators may do during one iteration of the review
ReviewOutcomes ==
    { [NoOutcome EXCEPT !.loop = l, !.delivery = d, !.fault = f] :
        l \in workload.loop, d \in workload.delivery,
        f \in workload.faults \cap {"none", "load_context"} }

\* patients = self.db.list_patients()
ReviewBegin(t) ==
    /\ pc[t] = "review_begin"
    /\ reviews' = Append(reviews,
          [tick |-> loop_count, patients |-> KnownPatients,
           due |-> { p \in Patients : HasHistory(World, p) }, visits |-> << >>])
    /\ pos' = [pos EXCEPT ![t] = 1]
    /\ pc' = [pc EXCEPT ![t] = "review"]
    /\ UNCHANGED << fusionVars, rulesVars, reportVars, configVars, callVars, latest_vitals, alerts, logs, audit_log,
                    delivery_stats, stats, venice_endpoints_used, ext_calls, receipts,
                    deliver_calls, deliveries, ephemeral_files, files, now, uploadVars,
                    queueVars, running, loop_count, events, wake, stop_returned, started,
                    processed >>

\* what the tick does when the iteration for a patient ends with r
AfterVisit(t, r) ==
    /\ SetWorld(r.w)
    /\ pc' = [pc EXCEPT ![t] = IF r.raised THEN AfterException
                               ELSE IF pos[t] = Len(KnownPatients) THEN "sleep"
                               ELSE "review"]
    /\ pos' = [pos EXCEPT ![t] = @ + 1]

\* one iteration of `for p in patients`; an exception ends the try block of
\* the tick
ReviewPatient(t) ==
    /\ pc[t] = "review"
    /\ pos[t] <= Len(KnownPatients)
    /\ \E o \in ReviewOutcomes : AfterVisit(t, review_patient(World, KnownPatients[pos[t]], o))
    /\ UNCHANGED << fusionVars, rulesVars, reportVars, configVars, callVars, now, uploadVars, queueVars,
                    running, loop_count, events, wake, stop_returned, started, processed >>

Upload ==
    \/ UploadRequest
    \/ \E i \in 1..Len(items) : PushAcquire(i)
    \/ \E i \in 1..Len(items) : PushAppend(i)
    \/ \E i \in 1..Len(items) : UploadAudit(i)

ThreadStep(t) ==
    \/ ThreadEntry(t)
    \/ LoopCheck(t)
    \/ TickBegin(t)
    \/ GetPendingCopy(t)
    \/ GetPendingClear(t)
    \/ ProcessEvent(t)
    \/ Sweep(t)
    \/ Sleep(t)
    \/ Wake(t)

\* a workload also says how long the run is watched (ticks, seconds) and what
\* the model answers to akashml_loop_decision
Workload(max_items, requests, analyze, soap, stt, delivery, faults, delays) ==
    [max_items |-> max_items, requests |-> requests, analyze |-> analyze, soap |-> soap,
     stt |-> stt, delivery |-> delivery, faults |-> faults, delays |-> delays,
     max_loops |-> MaxLoops, max_time |-> MaxTime, loop |-> {NoOutcome.loop}]

\* the uploads of the pipeline runs
Requests ==
    { Request("photo", Patient1, "", 0), Request("voice", Patient1, "", 0),
      Request("photo", Patient2, "", 0), Request("text", Patient2, "", 0),
      Request("vital", Patient1, "bp_systolic", 185),
      Request("vital", Patient2, "bp_systolic", 120) }

\* every kind of upload, every answer of the collaborators, database faults
\* in load_context and record_log, slow collaborators
PipelineWorkload ==
    Workload(MaxItems, Requests, AnalyzeResponses, SoapResponses, {"text", "empty"},
             {AllUp, AllDown}, {"none", "load_context", "record_log"}, {0, TimeStep})

\* symptom texts only, every collaborator answering at once and well
NominalWorkload(max_items) ==
    Workload(max_items, {Request("text", Patient1, "", 0)}, {NoOutcome.ai},
             {[kind |-> "json",
               body |-> [urgency |-> "routine", pain_level |-> NoneValue, assessment |-> Str("a")]]},
             {"text"}, {AllUp}, {"none"}, {0})

\* The deployed program: gateway startup has built the agent and called
\* start() once; nothing calls start() again or stop().
InitDeployed ==
    /\ FusionIdle
    /\ RulesIdle
    /\ InitAgent
    /\ telegram_enabled = TRUE
    /\ latest_vitals \in StoredVitals
    /\ started = 1
    /\ pc = [t \in Threads |-> IF t = 1 THEN "entry" ELSE "unborn"]

NextDeployed == Upload \/ ThreadStep(1) \/ TimePasses

InitPipeline ==
    /\ InitDeployed
    /\ workload = PipelineWorkload

\* the deployed program under the pipeline workload
SpecAgent == InitPipeline /\ [][NextDeployed]_vars

\* two uploads that meet in one drain: a photo and a symptom text, the
\* analysis answering with an alert, the database failing or not in
\* load_context, the collaborators slow or not
TickWorkload ==
    Workload(MaxTickItems, {Request("photo", Patient1, "", 0), Request("text", Patient2, "", 0)},
             {[kind |-> "json",
               body |-> [decision |-> "alert", anomaly_score |-> Num(75), reason |-> Str("ai reason")]]},
             {[kind |-> "json",
               body |-> [urgency |-> "routine", pain_level |-> NoneValue, assessment |-> Str("a")]]},
             {"text"}, {AllUp}, {"none", "load_context"}, {0, TimeStep})

InitTick ==
    /\ InitDeployed
    /\ workload = TickWorkload

\* the deployed program under the tick workload
SpecTick == InitTick /\ [][NextDeployed]_vars

MaxVitalItems == 2

\* vitals of one patient: a critical and a normal systolic pressure, a
\* critical glucose, and a critical systolic pressure whose unit holds a colon
VitalWorkload ==
    Workload(MaxVitalItems,
             {VitalRequest(Patient1, "bp_systolic", 185, << "mmHg" >>),
              VitalRequest(Patient1, "bp_systolic", 120, << "mmHg" >>),
              VitalRequest(Patient1, "glucose", 450, << "mg/dL" >>),
              VitalRequest(Patient1, "bp_systolic", 185, << "mm", "Hg" >>)},
             {NoOutcome.ai}, {NoOutcome.soap}, {"text"}, {AllUp, AllDown}, {"none"}, {0})

InitVitals ==
    /\ InitDeployed
    /\ workload = VitalWorkload

\* the deployed program under vitals submitted one after the other
SpecVitals == InitVitals /\ [][NextDeployed]_vars

InitQueue ==
    /\ InitDeployed
    /\ workload = NominalWorkload(MaxQueueItems)

\* the deployed program under uploads that all succeed: the queue between the
\* request handlers and the scheduler thread
SpecQueue == InitQueue /\ [][NextDeployed]_vars

\* what the model may answer to akashml_loop_decision
LoopResponses ==
    { [kind |-> "exception", body |-> NoLoopJson] }
    \cup { [kind |-> "json", body |-> b] :
             b \in { [action |-> "idle", severity |-> Num(3), reason |-> Str("loop reason")],
                     [action |-> "alert_patient", severity |-> Num(2), reason |-> Str("loop reason")],
                     [action |-> "alert_doctor", severity |-> Num(1), reason |-> NoneValue],
                     [action |-> "alert_doctor", severity |-> Num(4), reason |-> Str("loop reason")],
                     [action |-> "alert_patient", severity |-> Absent, reason |-> Absent] } }

\* five ticks, one critical vital uploaded at any time, every answer of the
\* loop decision, the database failing or not in load_context
ReviewWorkload ==
    [Workload(MaxReviewItems, {Request("vital", Patient1, "bp_systolic", 185)},
              {NoOutcome.ai}, {NoOutcome.soap}, {"text"}, {AllUp}, {"none", "load_context"}, {0})
     EXCEPT !.max_loops = MaxReviewLoops, !.max_time = MaxReviewTime, !.loop = LoopResponses]

InitReview ==
    /\ InitDeployed
    /\ workload = ReviewWorkload

NextReview == NextDeployed \/ ReviewBegin(1) \/ ReviewPatient(1)

\* the deployed program watched up to its fifth tick, where the per-patient
\* review runs
SpecReview == InitReview /\ [][NextReview]_vars

MaxLiveLoops == 6

MaxLiveTime == 300

\* the review workload watched one tick past the review
LiveWorkload ==
    [ReviewWorkload EXCEPT !.max_loops = MaxLiveLoops, !.max_time = MaxLiveTime]

InitLive ==
    /\ InitDeployed
    /\ workload = LiveWorkload

NextLive == NextReview \/ Stop

\* The deployed program, stop() called at any time, with the scheduling the
\* code relies on: the scheduler thread keeps running while it can take a
\* step, time passes while it sleeps, and a request handler that holds the
\* queue lock goes on to release it.
SpecLive ==
    /\ InitLive
    /\ [][NextLive]_vars
    /\ WF_vars(ThreadStep(1) \/ ReviewBegin(1) \/ ReviewPatient(1))
    /\ WF_vars(TimePasses)
    /\ WF_vars(\E i \in 1..Len(items) : PushAppend(i))

\* An agent just constructed, on which start() and stop() are called freely
InitConstructed ==
    /\ FusionIdle
    /\ RulesIdle
    /\ InitAgent
    /\ telegram_enabled \in BOOLEAN
    /\ latest_vitals \in StoredVitals
    /\ workload = NominalWorkload(MaxLifecycleItems)
    /\ started = 0
    /\ pc = [t \in Threads |-> "unborn"]

NextLifecycle == Start \/ Stop \/ Upload \/ (\E t \in Threads : ThreadStep(t)) \/ TimePasses

SpecLifecycle == InitConstructed /\ [][NextLifecycle]_vars

\* ------------------------------------------------------------------------
\* The artifact store called on its own
\* ------------------------------------------------------------------------
ArtifactPaths == 1..MaxArtifacts

\* photos and voice notes only, so that every upload saves a raw file
ArtifactWorkload ==
    Workload(MaxArtifacts, {Request("photo", Patient1, "", 0), Request("voice", Patient2, "", 0)},
             {NoOutcome.ai}, {NoOutcome.soap}, {"text"}, {AllUp}, {"none"}, {0})

\* delete_immediately(filepath) for any path, saved or not, still there or not
DeleteCall(p) ==
    /\ \E rm_ok \in BOOLEAN : SetWorld(delete_immediately(World, p, rm_ok))
    /\ ingestion_call' = DeletionCall("delete_immediately", p, World, 0)
    /\ UNCHANGED << fusionVars, rulesVars, reportVars, configVars, now, uploadVars, queueVars, threadVars, processed >>

\* cleanup_expired() at any time
CleanupCall ==
    /\ \E rm_ok \in BOOLEAN : SetWorld(cleanup_expired(World, now, rm_ok).w)
    /\ ingestion_call' = DeletionCall("cleanup_expired", NoPath, World,
                                      cleanup_expired(World, now, TRUE).deleted)
    /\ UNCHANGED << fusionVars, rulesVars, reportVars, configVars, now, uploadVars, queueVars, threadVars, processed >>

InitArtifacts ==
    /\ FusionIdle
    /\ RulesIdle
    /\ InitAgent
    /\ telegram_enabled = FALSE
    /\ latest_vitals = [p \in Patients |-> NoSnapshot]
    /\ workload = ArtifactWorkload
    /\ started = 0
    /\ pc = [t \in Threads |-> "unborn"]

NextArtifacts ==
    \/ UploadRequest
    \/ \E p \in ArtifactPaths : DeleteCall(p)
    \/ CleanupCall
    \/ TimePasses

\* raw files saved by the upload endpoints, deleted and swept in any order
SpecArtifacts == InitArtifacts /\ [][NextArtifacts]_vars

\* ------------------------------------------------------------------------
\* The delivery engine called on its own
\* ------------------------------------------------------------------------
\* fused decisions as their builders hand them to deliver: the rule branches
\* of combine_decisions (a rule message), its AI alert branch (whatever the
\* model put under "reason"), the autonomous sweep (severity and reason of
\* the loop decision)
DeliveryDecisions ==
    { Fused("alert", sev, TextReason("reason"), "rule_engine", TRUE, << >>, NoJson) :
        sev \in {1, 2} }
    \cup { Fused("alert", 2, reason, "ai_engine", TRUE, << >>, NoJson) :
             reason \in {TextReason("reason"), NoneReason, NumReason} }
    \cup { Fused("alert", sev, reason, "ai_autonomous_loop", TRUE, << >>, NoJson) :
             sev \in {1, 2, 3}, reason \in {TextReason("reason"), NoneReason, NumReason} }

DeliveryOutcomes == [tg1 : NetOutcomes, tts : TtsOutcomes, tga : NetOutcomes, tg2 : NetOutcomes]

DeliverCall ==
    /\ deliver_calls < MaxDeliveries
    /\ \E patient_id \in Patients, decision \in DeliveryDecisions, o \in DeliveryOutcomes :
          SetWorld(deliver(World, patient_id, decision, o).w)
    /\ UNCHANGED << fusionVars, rulesVars, reportVars, configVars, callVars, now, uploadVars, queueVars, threadVars,
                    processed >>

SpecDelivery == InitConstructed /\ [][DeliverCall]_vars

\* ------------------------------------------------------------------------
\* Fusion as a function: inputs drawn at Init, one call
\* ------------------------------------------------------------------------
SampleTriggers ==
    { rule_bp_systolic([bp_systolic |-> Wrapped(185)])[1],
      rule_bp_systolic([bp_systolic |-> Bare(155)])[1],
      rule_oxygen_saturation([oxygen_saturation |-> Wrapped(85)])[1],
      rule_pain_level([pain_level |-> Wrapped(7)])[1],
      RuleResult(3, "note", 0, 0, Message("INFO", "note", 0, "", 0)) }

TriggerLists == UNION { [1..n -> SampleTriggers] : n \in 0..MaxTriggers }

DecisionLabels == {"normal", "monitor", "alert", "escalate", "absent"}

ScoreValues == { Num(n) : n \in 0..MaxScore } \cup {Absent, NoneValue, StrValue}

AIClassifications ==
    [decision : DecisionLabels, anomaly_score : ScoreValues,
     reason : {Absent, Str("ai reason"), NoneValue}]

InitFusion ==
    /\ arg_rule_results \in TriggerLists
    /\ arg_ai_decision \in AIClassifications
    /\ ret_combined = NotCalled
    /\ RulesIdle
    /\ InitAgent
    /\ telegram_enabled = FALSE
    /\ workload = NominalWorkload(0)
    /\ latest_vitals = [p \in Patients |-> NoSnapshot]
    /\ started = 0
    /\ pc = [t \in Threads |-> "unborn"]

Combine ==
    /\ ret_combined = NotCalled
    /\ ret_combined' = combine_decisions(arg_rule_results, arg_ai_decision)
    /\ UNCHANGED << arg_rule_results, arg_ai_decision, rulesVars, reportVars, configVars, callVars,
                    worldVars, now, uploadVars, queueVars, threadVars, processed >>

SpecFusion == InitFusion /\ [][Combine]_vars

Called == ret_combined # NotCalled

HasSeverity1 == \E i \in 1..Len(arg_rule_results) : arg_rule_results[i].severity = 1

NumericScore == Get(arg_ai_decision.anomaly_score, Num(0)).t = "num"

ScoreOf == Get(arg_ai_decision.anomaly_score, Num(0)).v

\* C1: whenever the trigger list holds a severity-1 trigger, and whatever the
\* AI classification (any score in [0,1], any label), the fused decision is
\* alert / severity 1 / source rule_engine, its reason is the first trigger's
\* message with no AI note, and the AI classification is embedded unchanged.
C1_CriticalRuleDominates ==
    (Called /\ HasSeverity1 /\ NumericScore) =>
        /\ ~ret_combined.raised
        /\ ret_combined.final_decision = "alert"
        /\ ret_combined.final_severity = 1
        /\ ret_combined.source = "rule_engine"
        /\ ret_combined.reason = RuleReason(arg_rule_results[1].message, NoNote)
        /\ ret_combined.ai_decision = arg_ai_decision

\* C1 witness: a list whose first trigger is a warning and whose second is
\* critical, fused with an AI classification saying normal at score 0.
C1_Witness ==
    /\ Called /\ HasSeverity1 /\ NumericScore
    /\ Len(arg_rule_results) = 2
    /\ arg_rule_results[1].severity = 2
    /\ arg_ai_decision.decision = "normal"
    /\ ScoreOf = 0
    /\ ret_combined.final_severity = 1

WorstIs2 == MinSeverity(arg_rule_results) = 2

\* C10: with worst rule severity 2 the fused decision is alert, at severity 1
\* iff score > 0.7 (0.7 itself stays 2); the reason is the first trigger's
\* message, with the AI note iff score > 0.4; source is rule_engine+ai iff
\* score > 0.4, else rule_engine.
C10_WarningFusion ==
    (Called /\ WorstIs2 /\ NumericScore) =>
        /\ ~ret_combined.raised
        /\ ret_combined.final_decision = "alert"
        /\ ret_combined.final_severity = (IF ScoreOf > 70 THEN 1 ELSE 2)
        /\ ret_combined.reason.kind = "rule"
        /\ ret_combined.reason.message = arg_rule_results[1].message
        /\ (ret_combined.reason.note # NoNote) <=> (ScoreOf > 40)
        /\ (ret_combined.reason.note # NoNote) => ret_combined.reason.note = ScoreOf
        /\ ret_combined.source = (IF ScoreOf > 40 THEN "rule_engine+ai" ELSE "rule_engine")

\* C10 witness: worst severity 2 at exactly 0.7, which does not escalate but
\* is corroborated.
C10_Witness ==
    /\ Called /\ WorstIs2 /\ NumericScore
    /\ ScoreOf = 70
    /\ ret_combined.final_severity = 2
    /\ ret_combined.source = "rule_engine+ai"

NoTrigger == arg_rule_results = << >>

\* C11: with no rule trigger and a numeric score, the fused decision is
\* alert / severity 2 / source ai_engine when score > 0.7, monitor / severity 3
\* / source ai_engine when 0.4 < score <= 0.7, and normal / severity 3 / source
\* combined when score <= 0.4; 0.7 itself gives monitor and 0.4 itself normal.
C11_AiOnlyFusion ==
    (Called /\ NoTrigger /\ NumericScore) =>
        /\ ~ret_combined.raised
        /\ ret_combined.final_decision =
              (IF ScoreOf > 70 THEN "alert" ELSE IF ScoreOf > 40 THEN "monitor" ELSE "normal")
        /\ ret_combined.final_severity = (IF ScoreOf > 70 THEN 2 ELSE 3)
        /\ ret_combined.source = (IF ScoreOf > 40 THEN "ai_engine" ELSE "combined")

\* C11 witness: no trigger and a score of exactly 0.7, fused to monitor by
\* the AI engine.
C11_Witness ==
    /\ Called /\ NoTrigger /\ NumericScore
    /\ ScoreOf = 70
    /\ ret_combined.final_decision = "monitor"
    /\ ret_combined.source = "ai_engine"

\* ------------------------------------------------------------------------
\* The pipeline, the tick, the queue and the lifecycle
\* ------------------------------------------------------------------------
\* the process_event calls that have ended, as << item, call >> pairs
Calls == { << i, k >> : i \in 1..Len(processed), k \in 1..MaxLoops }

Ended == { c \in Calls : c[2] <= Len(processed[c[1]]) }

CallOf(c) == processed[c[1]][c[2]]

\* C2: a photo whose stored snapshot triggers a rule ends, however the analysis
\* model answered and with no database fault, with a fused decision "alert"
\* whose severity is at most the worst trigger's, and with a delivery receipt.
C2_RuleAlertSurvivesAI ==
    \A c \in Ended :
        (/\ items[c[1]].input_type = "photo"
         /\ CallOf(c).fault = "none"
         /\ CallOf(c).worst_rule \in {1, 2})
        => /\ CallOf(c).result.has_decision
           /\ CallOf(c).result.decision.final_decision = "alert"
           /\ CallOf(c).result.decision.final_severity <= CallOf(c).worst_rule
           /\ CallOf(c).result.has_delivery

\* C3: every time deliver has been entered it has written one alert record
\* and one audit entry: as many alert records and audit entries as calls.
C3_OneAlertOneAuditPerCall ==
    /\ Len(alerts) = deliver_calls
    /\ Len(audit_log) = deliver_calls

\* C4: every process_event call that has ended returned a result, with the
\* error on it when a fault was injected, and left no raw file and no registry
\* entry of its item behind.
C4_FaultsCaughtAtItemBoundary ==
    \A c \in Ended :
        /\ CallOf(c).result.returned
        /\ CallOf(c).fault # "none" => CallOf(c).result.error # ""
        /\ items[c[1]].file_path # NoPath
              => /\ items[c[1]].file_path \notin files
                 /\ items[c[1]].file_path \notin DOMAIN ephemeral_files

\* how many times item i occurs in the list
RECURSIVE Occurrences(_, _)
Occurrences(i, list) ==
    IF list = << >> THEN 0
    ELSE (IF Head(list) = i THEN 1 ELSE 0) + Occurrences(i, Tail(list))

\* how many times item i occurs in the lists get_pending has returned
RECURSIVE Returned(_, _)
Returned(i, n) ==
    IF n = 0 THEN 0 ELSE Occurrences(i, drains[n]) + Returned(i, n - 1)

Pushed(i) == handler_pc[i] \in {"pushed", "done"}

\* every pushed item is either still queued or was returned by get_pending,
\* once and by one drain only; nothing else is queued or returned
QueueKeepsItems ==
    \A i \in 1..Len(items) :
        Occurrences(i, queue) + Returned(i, Len(drains)) = (IF Pushed(i) THEN 1 ELSE 0)

\* a get_pending call that returns hands back what the queue held and leaves
\* the queue empty
DrainEmpties(t) ==
    (pc[t] = "drain_clear" /\ pc'[t] # "drain_clear")
        => /\ queue' = << >>
           /\ drains' = Append(drains, queue)

\* C5: every pushed item is returned by exactly one get_pending call or is
\* still queued for the next one (so a push after a drain goes to the next
\* drain), and each get_pending call returns the whole queue and empties it.
C5_PushDrainExactlyOnce ==
    /\ []QueueKeepsItems
    /\ [][\A t \in Threads : DrainEmpties(t)]_vars

\* two drains have returned items, and a later push waits for the next drain
C5_Witness ==
    /\ \E d1, d2 \in 1..Len(drains) : d1 < d2 /\ drains[d1] # << >> /\ drains[d2] # << >>
    /\ queue # << >>

\* the event loop of the tick that made the drain d is over
TickDone(d) == d < Len(drains) \/ pc[1] \in {"sweep", "sleep", "sleeping", "check", "tick", "exited"}

\* C6: when the event loop of a tick is over, process_event has been called
\* exactly once for every item of its drain.
C6_OncePerDrainedItem ==
    \A d \in 1..Len(drains) :
        TickDone(d) => \A j \in 1..Len(drains[d]) : Len(processed[drains[d][j]]) = 1

\* C7: when no database fault was injected, a raw file that exists has not
\* passed its expiry, and the process_event call of its item has not ended.
C7_NoArtifactOutlivesLifetime ==
    (\A c \in Ended : CallOf(c).fault = "none")
        => \A i \in 1..Len(items) :
              items[i].file_path \in files
                  => /\ now <= expiry_of[i]
                     /\ processed[i] = << >>

Alive(t) == pc[t] \notin {"unborn", "exited"}

\* C8: at most one scheduler thread is alive.
C8_OneLoopAlive == Cardinality({ t \in Threads : Alive(t) }) <= 1

\* C9: with start() called once, no tick begins while stop() has returned.
C9_NoTickAfterStop ==
    [][(stop_returned /\ started = 1) => loop_count' = loop_count]_vars

\* ------------------------------------------------------------------------
\* The delivery engine: actions and receipts
\* ------------------------------------------------------------------------
\* how many requests of one kind an invocation made
Count(inv, api, purpose) ==
    Cardinality({ k \in 1..Len(inv.calls) :
                    inv.calls[k].api = api /\ inv.calls[k].purpose = purpose })

\* speech synthesis handed audio back to the invocation
GotAudio(inv) ==
    \E k \in 1..Len(inv.calls) : inv.calls[k].api = "venice_tts" /\ inv.calls[k].ok

SeverityOf(inv) == inv.decision.final_severity

\* C12: every deliver invocation made exactly the requests of its severity:
\* at severity 1 one patient message, one doctor message, one speech
\* synthesis, and one audio send exactly when synthesis returned audio; at
\* severity 2 one patient message and nothing else; at severity 3 nothing.
C12_ActionSetOfSeverity ==
    \A n \in 1..Len(deliveries) :
        /\ SeverityOf(deliveries[n]) = 1 =>
              /\ Count(deliveries[n], "send_message", "patient") = 1
              /\ Count(deliveries[n], "send_message", "doctor") = 1
              /\ Count(deliveries[n], "venice_tts", "spoken_alert") = 1
              /\ Count(deliveries[n], "send_audio", "patient")
                    = (IF GotAudio(deliveries[n]) THEN 1 ELSE 0)
              /\ Len(deliveries[n].calls) = (IF GotAudio(deliveries[n]) THEN 4 ELSE 3)
        /\ SeverityOf(deliveries[n]) = 2 =>
              /\ Count(deliveries[n], "send_message", "patient") = 1
              /\ Len(deliveries[n].calls) = 1
        /\ SeverityOf(deliveries[n]) = 3 => deliveries[n].calls = << >>

\* the requests an invocation of this severity has to attempt whatever happens
Mandatory(severity) ==
    IF severity = 1
    THEN { << "send_message", "patient" >>, << "venice_tts", "spoken_alert" >>,
           << "send_message", "doctor" >> }
    ELSE IF severity = 2 THEN { << "send_message", "patient" >> }
    ELSE {}

Kinds ==
    { << "send_message", "patient" >>, << "venice_tts", "spoken_alert" >>,
      << "send_audio", "patient" >>, << "send_message", "doctor" >> }

\* C13: in every deliver invocation no request is made twice, and every
\* request its severity asks for is made, whatever the other requests
\* answered.
C13_EachActionAttemptedOnce ==
    \A n \in 1..Len(deliveries) :
        /\ \A a \in Kinds : Count(deliveries[n], a[1], a[2]) <= 1
        /\ \A a \in Mandatory(SeverityOf(deliveries[n])) : Count(deliveries[n], a[1], a[2]) = 1

\* C14: the receipt of every deliver invocation that returned lists each
\* request the invocation made, with a success flag of its own that equals
\* what the request answered.
C14_ReceiptRecordsEachAttempt ==
    \A n \in 1..Len(deliveries) :
        ~deliveries[n].raised =>
            \A k \in 1..Len(deliveries[n].calls) :
                /\ ReceiptEntry(deliveries[n].receipt, deliveries[n].calls[k]).listed
                /\ ReceiptEntry(deliveries[n].receipt, deliveries[n].calls[k]).has_flag
                /\ ReceiptEntry(deliveries[n].receipt, deliveries[n].calls[k]).ok
                      = deliveries[n].calls[k].ok

\* C15: every receipt deliver built or returned and every audit entry of a
\* delivery carries raw_data_retained = FALSE.
C15_RawDataNeverRetained ==
    /\ \A n \in 1..Len(deliveries) : deliveries[n].receipt.raw_data_retained = FALSE
    /\ \A n \in 1..Len(receipts) : receipts[n].raw_data_retained = FALSE
    /\ \A n \in 1..Len(audit_log) :
          "raw_data_retained" \in DOMAIN audit_log[n] => audit_log[n].raw_data_retained = FALSE

\* C15 witness: a critical delivery whose patient message failed and whose
\* synthesis gave nothing has returned its receipt and written its audit
\* entry, and a second delivery has followed.
C15_Witness ==
    /\ Len(receipts) = 2
    /\ Len(audit_log) = 2
    /\ receipts[1].severity = 1
    /\ ~receipts[1].telegram_ok
    /\ ~ActionTaken(receipts[1], "tts_alert")
    /\ audit_log[1].type = "severity_1_delivery"

\* ------------------------------------------------------------------------
\* The audit log
\* ------------------------------------------------------------------------
\* the log before the step is the beginning of the log after it
AuditPrefixKept ==
    /\ Len(audit_log') >= Len(audit_log)
    /\ SubSeq(audit_log', 1, Len(audit_log)) = audit_log

\* a step in which an upload endpoint made its audit call added that one
\* entry at the end
UploadAuditAppends ==
    \A i \in 1..Len(items) :
        (handler_pc[i] = "pushed" /\ handler_pc'[i] = "done")
            => /\ Len(audit_log') = Len(audit_log) + 1
               /\ audit_log'[Len(audit_log')].type = UploadAuditType(items[i].input_type)
               /\ audit_log'[Len(audit_log')].session_id = i

\* a step in which one deliver invocation returned added its one entry at
\* the end
DeliveryAuditAppends ==
    (Len(deliveries') = Len(deliveries) + 1 /\ ~deliveries'[Len(deliveries')].raised)
        => /\ Len(audit_log') = Len(audit_log) + 1
           /\ audit_log'[Len(audit_log')] =
                 DeliveryAudit(deliveries'[Len(deliveries')].patient_id,
                               deliveries'[Len(deliveries')].decision,
                               deliveries'[Len(deliveries')].receipt)

\* C16: the audit log only grows at its end: every step leaves the entries
\* already written where and as they were, and every audit call (of an upload
\* endpoint, of deliver) adds exactly its one entry after them.
C16_AuditAppendOnly ==
    [][AuditPrefixKept /\ UploadAuditAppends /\ DeliveryAuditAppends]_vars

\* C16 witness: the audit entry of an upload, then the audit entry of the
\* delivery its item caused.
C16_Witness ==
    /\ Len(audit_log) = 2
    /\ audit_log[1].type = "photo_uploaded"
    /\ audit_log[2].type = "severity_2_delivery"

\* ------------------------------------------------------------------------
\* The artifact store
\* ------------------------------------------------------------------------
\* the step leaves the file and the registry entry of every artifact but p
\* as they were
OthersKept(p) ==
    \A q \in ArtifactPaths \ {p} :
        /\ (q \in files') <=> (q \in files)
        /\ (q \in DOMAIN ephemeral_files') <=> (q \in DOMAIN ephemeral_files)
        /\ q \in DOMAIN ephemeral_files => ephemeral_files'[q] = ephemeral_files[q]

NothingExpired == \A q \in DOMAIN ephemeral_files : now < ephemeral_files[q]

\* C17: delete_immediately on an artifact that is not in the registry or is
\* not on disk leaves every other artifact as it was, and changes nothing at
\* all when the artifact is in neither; cleanup_expired with nothing expired
\* changes nothing and returns 0.
C17_DeletionIdempotent ==
    [][/\ \A p \in ArtifactPaths :
             (DeleteCall(p) /\ (p \notin DOMAIN ephemeral_files \/ p \notin files))
                 => OthersKept(p)
       /\ \A p \in ArtifactPaths :
             (DeleteCall(p) /\ p \notin DOMAIN ephemeral_files /\ p \notin files)
                 => UNCHANGED << ephemeral_files, files >>
       /\ (CleanupCall /\ NothingExpired)
             => /\ UNCHANGED << ephemeral_files, files >>
                /\ ingestion_call'.deleted = 0]_vars

\* C17 witness: delete_immediately was just called on an artifact that had
\* been saved and had already been removed, from the registry and from disk,
\* while another artifact was registered and on disk; that one is still there.
C17_Witness ==
    /\ ingestion_call.op = "delete_immediately"
    /\ ingestion_call.filepath \in 1..Len(items)
    /\ ingestion_call.filepath \notin files
    /\ ingestion_call.filepath \notin ingestion_call.files
    /\ ingestion_call.filepath \notin DOMAIN ingestion_call.ephemeral_files
    /\ \E q \in ArtifactPaths :
          /\ q \in ingestion_call.files /\ q \in DOMAIN ingestion_call.ephemeral_files
          /\ q \in files /\ q \in DOMAIN ephemeral_files

\* ------------------------------------------------------------------------
\* Order within a tick
\* ------------------------------------------------------------------------
\* item a has been handled, and everything it wrote to the audit log and to
\* the logs table stands before everything item b wrote
WroteBefore(a, b) ==
    /\ processed[a] # << >>
    /\ \A ca \in 1..Len(processed[a]), cb \in 1..Len(processed[b]) :
          /\ \A x \in processed[a][ca].audits, y \in processed[b][cb].audits : x < y
          /\ \A x \in processed[a][ca].log_records, y \in processed[b][cb].log_records : x < y

\* of two items of one drain, the later is handled only after the earlier,
\* and its audit entries and log records come after the earlier one's
DrainOrderKept ==
    \A d \in 1..Len(drains) :
        \A j, k \in 1..Len(drains[d]) :
            (j < k /\ processed[drains[d][k]] # << >>) => WroteBefore(drains[d][j], drains[d][k])

\* a push puts its item behind everything queued, and a drain returns the
\* queue as it stands
PushOrderKept ==
    /\ \A i \in 1..Len(items) :
          (handler_pc[i] = "locked" /\ handler_pc'[i] = "pushed") => queue' = Append(queue, i)
    /\ Len(drains') = Len(drains) + 1 => drains'[Len(drains')] = queue

\* exactly one process_event call ends in a step, and it is the call for the
\* first item of the running drain that has not been handled
OneAtATime ==
    (processed' # processed /\ Len(processed') = Len(processed)) =>
        \E i \in 1..Len(items) :
            /\ Len(processed'[i]) = Len(processed[i]) + 1
            /\ processed' = [processed EXCEPT ![i] = Append(@, processed'[i][Len(processed'[i])])]
            /\ \E j \in 1..Len(drains[Len(drains)]) :
                  /\ drains[Len(drains)][j] = i
                  /\ \A h \in 1..(j - 1) : processed[drains[Len(drains)][h]] # << >>

\* C18: the items of a tick are handled one at a time in the order of the
\* drain, which is the order in which the pushes took effect; the delivery
\* audit entries and the log records of an earlier item of the drain precede
\* those of a later one.
C18_DrainOrderProcessing ==
    /\ []DrainOrderKept
    /\ [][PushOrderKept /\ OneAtATime]_vars

\* C18 witness: a drain of two items, both handled, both with a delivery
\* audit entry and a log record.
C18_Witness ==
    \E d \in 1..Len(drains) :
        /\ Len(drains[d]) = 2
        /\ \A j \in 1..2 :
              /\ Len(processed[drains[d][j]]) = 1
              /\ processed[drains[d][j]][1].audits # {}
              /\ processed[drains[d][j]][1].log_records # {}

\* ------------------------------------------------------------------------
\* The phases of a tick and the per-patient review
\* ------------------------------------------------------------------------
\* every item of the drain of the running tick has been handled in this tick
DrainHandled ==
    \A j \in 1..Len(drains[loop_count]) :
        /\ Len(processed[drains[loop_count][j]]) = 1
        /\ processed[drains[loop_count][j]][1].tick = loop_count

\* where the scheduler thread stands tells what the tick has done: it handles
\* items only after the drain, it cleans up only after all drained items were
\* handled, and it reviews patients only in a tick that is due, after the
\* cleanup has left no expired entry
PhasesInOrder ==
    /\ pc[1] \in {"process", "sweep", "review_begin", "review"} => Len(drains) = loop_count
    /\ pc[1] \in {"sweep", "review_begin", "review"} => DrainHandled
    /\ pc[1] \in {"review_begin", "review"} => (NothingExpired /\ loop_count % 5 = 0)

\* whatever a review wrote (deliver invocations, audit entries) stands after
\* whatever the items handled in the same tick wrote
ReviewAfterItems ==
    \A n \in 1..Len(reviews) : \A k \in 1..Len(reviews[n].visits) :
        \A i \in 1..Len(items) : \A c \in 1..Len(processed[i]) :
            processed[i][c].tick = reviews[n].tick =>
                /\ \A x \in processed[i][c].audits, y \in reviews[n].visits[k].audits : x < y
                /\ \A x \in processed[i][c].deliveries, y \in reviews[n].visits[k].deliveries :
                      x < y

ReviewOver(n) == n < Len(reviews) \/ pc[1] # "review"

VisitsOf(n, p) == { k \in 1..Len(reviews[n].visits) : reviews[n].visits[k].patient_id = p }

Evaluated(visit) == visit.outcome \notin {"fault", "no_history"}

AlertAsked(visit) == visit.outcome \in {"alert_patient", "alert_doctor"}

\* C20: when a run of the review is over, every patient that had history when
\* the run began was evaluated exactly once, no patient was visited twice,
\* and each visit invoked deliver once when its loop decision asked for an
\* alert and not at all otherwise.
C20_ReviewCoversEveryPatient ==
    \A n \in 1..Len(reviews) :
        ReviewOver(n) =>
            /\ \A p \in reviews[n].due :
                  /\ Cardinality(VisitsOf(n, p)) = 1
                  /\ \A k \in VisitsOf(n, p) : Evaluated(reviews[n].visits[k])
            /\ \A p \in Patients : Cardinality(VisitsOf(n, p)) <= 1
            /\ \A k \in 1..Len(reviews[n].visits) :
                  Cardinality(reviews[n].visits[k].deliveries)
                      = (IF AlertAsked(reviews[n].visits[k]) THEN 1 ELSE 0)

\* ------------------------------------------------------------------------
\* The rule engine called on its own
\* ------------------------------------------------------------------------
MaxMetrics == 2

MaxRuleCalls == 2

\* the metrics in the order evaluate_rules looks at them
MetricOrder ==
    << "bp_systolic", "bp_diastolic", "glucose", "heart_rate", "temperature",
       "oxygen_saturation", "pain_level" >>

Metrics == { MetricOrder[k] : k \in 1..Len(MetricOrder) }

\* readings on, just below and just above every threshold of the table
Readings ==
    [bp_systolic |-> {80, 81, 149, 150, 179, 180},
     bp_diastolic |-> {50, 99, 100, 119, 120},
     glucose |-> {50, 51, 70, 71, 249, 250, 399, 400},
     heart_rate |-> {40, 41, 45, 50, 51, 119, 120, 149, 150},
     temperature |-> {950, 951, 960, 965, 966, 1014, 1015, 1039, 1040},
     oxygen_saturation |-> {90, 91, 93, 94},
     pain_level |-> {6, 7, 8, 9}]

\* readings of all seven metrics at once: every one critical, every one at
\* its warning threshold, every one in the normal range
FullReadings ==
    { [bp_systolic |-> 180, bp_diastolic |-> 120, glucose |-> 50, heart_rate |-> 40,
       temperature |-> 1040, oxygen_saturation |-> 90, pain_level |-> 9],
      [bp_systolic |-> 150, bp_diastolic |-> 100, glucose |-> 70, heart_rate |-> 120,
       temperature |-> 1015, oxygen_saturation |-> 93, pain_level |-> 7],
      [bp_systolic |-> 81, bp_diastolic |-> 99, glucose |-> 71, heart_rate |-> 51,
       temperature |-> 966, oxygen_saturation |-> 94, pain_level |-> 6] }

\* the readings of a patient: a number for each of a few metrics, or one of
\* the full sets
ReadingSets ==
    UNION { { f \in [D -> UNION { Readings[m] : m \in D }] : \A m \in D : f[m] \in Readings[m] } :
              D \in { D \in SUBSET Metrics : Cardinality(D) <= MaxMetrics } }
        \cup FullReadings

\* the snapshot handed to evaluate_rules: each reading either bare or in a
\* {value, unit} wrapper (wrapped: the metrics that come wrapped)
Snapshot(readings, wrapped) ==
    [m \in DOMAIN readings |-> IF m \in wrapped THEN Wrapped(readings[m]) ELSE Bare(readings[m])]

RuleCall(wrapped, vitals, results) == [wrapped |-> wrapped, vitals |-> vitals, results |-> results]

\* evaluate_rules(vitals), the readings in any mix of the two shapes
EvaluateRules ==
    /\ Len(rule_calls) < MaxRuleCalls
    /\ \E wrapped \in SUBSET DOMAIN arg_vitals :
          rule_calls' = Append(rule_calls,
              RuleCall(wrapped, Snapshot(arg_vitals, wrapped),
                       evaluate_rules(Snapshot(arg_vitals, wrapped))))
    /\ UNCHANGED << fusionVars, arg_vitals, reportVars, configVars, callVars, worldVars, now,
                    uploadVars, queueVars, threadVars, processed >>

InitRules ==
    /\ arg_vitals \in ReadingSets
    /\ rule_calls = << >>
    /\ FusionIdle
    /\ InitAgent
    /\ telegram_enabled = FALSE
    /\ workload = NominalWorkload(0)
    /\ latest_vitals = [p \in Patients |-> NoSnapshot]
    /\ started = 0
    /\ pc = [t \in Threads |-> "unborn"]

SpecRules == InitRules /\ [][EvaluateRules]_vars

\* where a metric stands in the order of evaluation
MetricRank(metric) == CHOOSE k \in 1..Len(MetricOrder) : MetricOrder[k] = metric

\* the list is ascending by severity, and triggers of one severity stand in
\* the order of evaluation of their metrics
Ordered(results) ==
    \A i, j \in 1..Len(results) :
        i < j => \/ results[i].severity < results[j].severity
                 \/ /\ results[i].severity = results[j].severity
                    /\ MetricRank(results[i].metric) < MetricRank(results[j].metric)

MeetsCritical(metric, v) ==
    CASE metric = "bp_systolic" -> v >= 180 \/ v <= 80
      [] metric = "bp_diastolic" -> v >= 120
      [] metric = "glucose" -> v >= 400 \/ v <= 50
      [] metric = "heart_rate" -> v >= 150 \/ v <= 40
      [] metric = "temperature" -> v >= 1040 \/ v <= 950
      [] metric = "oxygen_saturation" -> v <= 90
      [] metric = "pain_level" -> v >= 9

\* the value meets one of the warning thresholds the engine is said to apply
MeetsWarning(metric, v) ==
    CASE metric = "bp_systolic" -> v >= 150
      [] metric = "bp_diastolic" -> v >= 100
      [] metric = "glucose" -> v >= 250 \/ v <= 70
      [] metric = "heart_rate" -> v >= 120
      [] metric = "temperature" -> v >= 1015
      [] metric = "oxygen_saturation" -> v <= 93
      [] metric = "pain_level" -> v >= 7

\* the returned list of the call holds a trigger of this severity for the metric
Triggered(call, metric, severity) ==
    \E k \in 1..Len(call.results) :
        /\ call.results[k].metric = metric
        /\ call.results[k].severity = severity
        /\ call.results[k].triggered

\* C23: for every metric of the snapshot evaluate_rules returns a severity-1
\* trigger exactly when the reading meets a critical threshold of the table
\* (the threshold itself included), and a severity-2 trigger when it meets a
\* warning threshold and no critical one.
C23_ThresholdTable ==
    \A i \in 1..Len(rule_calls) : \A m \in DOMAIN arg_vitals :
        /\ Triggered(rule_calls[i], m, 1) <=> MeetsCritical(m, arg_vitals[m])
        /\ (MeetsWarning(m, arg_vitals[m]) /\ ~MeetsCritical(m, arg_vitals[m]))
              => Triggered(rule_calls[i], m, 2)

\* C23 witness: a glucose of exactly 50 (critical) with an oxygen saturation
\* of exactly 93 (warning), evaluated.
C23_Witness ==
    /\ Len(rule_calls) = 1
    /\ DOMAIN arg_vitals = {"glucose", "oxygen_saturation"}
    /\ arg_vitals["glucose"] = 50
    /\ arg_vitals["oxygen_saturation"] = 93
    /\ Triggered(rule_calls[1], "glucose", 1)
    /\ Triggered(rule_calls[1], "oxygen_saturation", 2)

\* C24: a temperature above 95.0 and at or below 96.5 gives a severity-2
\* temperature trigger, and a heart rate above 40 and at or below 50 gives a
\* severity-2 heart_rate trigger.
C24_WarningLowEnforced ==
    \A i \in 1..Len(rule_calls) :
        /\ ("temperature" \in DOMAIN arg_vitals
            /\ arg_vitals["temperature"] > 950 /\ arg_vitals["temperature"] <= 965)
              => Triggered(rule_calls[i], "temperature", 2)
        /\ ("heart_rate" \in DOMAIN arg_vitals
            /\ arg_vitals["heart_rate"] > 40 /\ arg_vitals["heart_rate"] <= 50)
              => Triggered(rule_calls[i], "heart_rate", 2)

\* the two snapshots hold the same numbers for the same metrics
SameNumbers(a, b) ==
    /\ DOMAIN a.vitals = DOMAIN b.vitals
    /\ \A m \in DOMAIN a.vitals :
          \E v \in Readings[m] : a.vitals[m] \in {Bare(v), Wrapped(v)}
                                 /\ b.vitals[m] \in {Bare(v), Wrapped(v)}

\* C25: two snapshots that hold the same numbers, each number bare or wrapped
\* and the shapes mixed at will, get the same list of triggers: same metrics,
\* severities, thresholds, values and order.
C25_ShapeIndependent ==
    \A i, j \in 1..Len(rule_calls) :
        SameNumbers(rule_calls[i], rule_calls[j])
            => rule_calls[i].results = rule_calls[j].results

\* C25 witness: a snapshot with one number wrapped and the other bare, and
\* the same numbers with the shapes swapped, both with two triggers.
C25_Witness ==
    /\ Len(rule_calls) = 2
    /\ Cardinality(rule_calls[1].wrapped) = 1
    /\ rule_calls[2].wrapped = DOMAIN arg_vitals \ rule_calls[1].wrapped
    /\ Cardinality(DOMAIN arg_vitals) = 2
    /\ Len(rule_calls[1].results) = 2
    /\ Len(rule_calls[2].results) = 2

\* ------------------------------------------------------------------------
\* Failing AI collaborators and the result of process_event
\* ------------------------------------------------------------------------
\* the structured answer the pipeline of this call asked for could not be
\* parsed: the analysis for a photo, the SOAP note for a voice note with a
\* transcript or for a text
Unparsable(c) ==
    \/ items[c[1]].input_type = "photo" /\ CallOf(c).answer.ai = "unparsable"
    \/ items[c[1]].input_type = "voice" /\ CallOf(c).answer.stt = "text"
         /\ CallOf(c).answer.soap = "unparsable"
    \/ items[c[1]].input_type = "text" /\ CallOf(c).answer.soap = "unparsable"

\* the reason says that the AI answer could not be parsed
MarksParseError(reason) == reason.kind = "text" /\ reason.text = "analysis parse error"

\* C26: when the structured answer of the AI could not be parsed and no
\* database fault was injected, the result carries a fused decision whose
\* reason marks the parse error, with or without a rule trigger.
C26_ParseErrorMarked ==
    \A c \in Ended :
        (Unparsable(c) /\ CallOf(c).fault = "none")
            => /\ CallOf(c).result.has_decision
               /\ MarksParseError(CallOf(c).result.decision.reason)

\* the AI call of the pipeline of this call failed or answered something
\* that could not be parsed
AiFailed(c) ==
    \/ items[c[1]].input_type = "photo" /\ CallOf(c).answer.ai \in {"exception", "unparsable"}
    \/ items[c[1]].input_type = "voice" /\ CallOf(c).answer.stt = "text"
         /\ CallOf(c).answer.soap \in {"exception", "unparsable"}
    \/ items[c[1]].input_type = "text" /\ CallOf(c).answer.soap \in {"exception", "unparsable"}

\* the classification the pipeline fused is a safe one: for a photo the
\* default of akashml_analyze (monitor), for a SOAP note the routine urgency,
\* and a score in [0, 0.3]
SafeDefault(c) ==
    /\ CallOf(c).result.decision.ai_decision.decision
          = (IF items[c[1]].input_type = "photo" THEN "monitor" ELSE "routine")
    /\ CallOf(c).result.decision.ai_decision.anomaly_score.t = "num"
    /\ CallOf(c).result.decision.ai_decision.anomaly_score.v \in 0..30

C28_ResultCarriesDecision ==
    \A c \in Ended :
        /\ CallOf(c).result.returned
        /\ CallOf(c).result.session_id = items[c[1]].session_id
        /\ CallOf(c).result.has_decision

\* ------------------------------------------------------------------------
\* The severity handed to the delivery engine
\* ------------------------------------------------------------------------
\* C30: the decision of every deliver invocation, those of the per-patient
\* review included, has final_severity 1, 2 or 3.
C30_DeliveredSeverityInRange ==
    \A n \in 1..Len(deliveries) : deliveries[n].decision.final_severity \in {1, 2, 3}

\* ------------------------------------------------------------------------
\* The tick loop goes on
\* ------------------------------------------------------------------------
\* the run is watched no further: the tick bound is reached, or the thread
\* sleeps until after the last moment watched
WatchEnds ==
    \/ loop_count >= workload.max_loops
    \/ pc[1] = "sleeping" /\ wake[1] > workload.max_time

\* an exception left the try block of tick n: process_event raised, or an
\* iteration of the per-patient review did
TickFaulted(n) ==
    \/ \E i \in 1..Len(processed) : \E c \in 1..Len(processed[i]) :
          processed[i][c].tick = n /\ ~processed[i][c].result.returned
    \/ \E r \in 1..Len(reviews) : \E k \in 1..Len(reviews[r].visits) :
          reviews[r].tick = n /\ reviews[r].visits[k].outcome = "fault"

\* C21: whatever happened in the ticks so far, exceptions included, the next
\* tick starts, unless stop() is called (or the run is watched no further).
C21_TicksGoOn ==
    \A n \in 0..MaxLiveLoops :
        (loop_count = n /\ ~stop_returned) ~> (loop_count > n \/ stop_returned \/ WatchEnds)

\* C21 witness: process_event raised in one tick, an iteration of the review
\* raised in the fifth, and the tick after that one has started.
C21_Witness ==
    /\ \E n \in 1..4 : TickFaulted(n)
    /\ TickFaulted(5)
    /\ loop_count > 5
    /\ pc[1] = "drain"
    /\ ~stop_returned

\* ------------------------------------------------------------------------
\* gateway.py : doctor_report and patient_briefing, run by request threads
\* ------------------------------------------------------------------------
MaxReports == 2

MaxReportItems == 1

MaxReportLoops == 2

MaxReportTime == 60

\* one request: the endpoint, the patient, where its handler stands, and the
\* value it read from the counter it is about to write
ReportRequest(kind, patient_id, at, loaded) ==
    [kind |-> kind, patient_id |-> patient_id, at |-> at, loaded |-> loaded]

\* a request arrives; the handler has the report or briefing made and stands
\* before `_agent.stats["akashml_calls"] += 1`
ReportBegin ==
    /\ Len(report_requests) < MaxReports
    /\ \E kind \in {"doctor_report", "patient_briefing"}, patient_id \in Patients :
          report_requests' = Append(report_requests,
                                    ReportRequest(kind, patient_id, "akashml_load", 0))
    /\ UNCHANGED << fusionVars, rulesVars, configVars, callVars, worldVars, now, uploadVars,
                    queueVars, threadVars, processed >>

\* the counter a handler at this position is incrementing
CounterAt(at) == IF at \in {"akashml_load", "akashml_store"} THEN "akashml_calls" ELSE "venice_calls"

\* `+= 1`, first half: the current value of the counter is read
CounterLoad(h) ==
    /\ report_requests[h].at \in {"akashml_load", "venice_load"}
    /\ report_requests' = [report_requests EXCEPT
          ![h].loaded = stats[CounterAt(report_requests[h].at)],
          ![h].at = IF report_requests[h].at = "akashml_load" THEN "akashml_store"
                    ELSE "venice_store"]
    /\ UNCHANGED << fusionVars, rulesVars, configVars, callVars, worldVars, now, uploadVars,
                    queueVars, threadVars, processed >>

\* `+= 1`, second half: the value read, plus one, is written
CounterStore(h) ==
    /\ report_requests[h].at \in {"akashml_store", "venice_store"}
    /\ stats' = [stats EXCEPT ![CounterAt(report_requests[h].at)] = report_requests[h].loaded + 1]
    /\ report_requests' = [report_requests EXCEPT
          ![h].at = IF report_requests[h].at = "venice_store" THEN "audit"
                    ELSE IF report_requests[h].kind = "doctor_report" THEN "audit"
                    ELSE "tts"]
    /\ UNCHANGED << fusionVars, rulesVars, configVars, callVars, latest_vitals, alerts, logs,
                    audit_log, delivery_stats, venice_endpoints_used, ext_calls, receipts,
                    deliver_calls, deliveries, reviews, ephemeral_files, files, now, uploadVars,
                    queueVars, threadVars, processed >>

\* patient_briefing: venice_tts(spoken); only audio leads to the bookkeeping
BriefingTts(h) ==
    /\ report_requests[h].at = "tts"
    /\ \E outcome \in {"audio", "empty", "failed"} :
          report_requests' = [report_requests EXCEPT
              ![h].at = IF Truthy(venice_tts(outcome)) THEN "endpoint_add" ELSE "audit"]
    /\ UNCHANGED << fusionVars, rulesVars, configVars, callVars, worldVars, now, uploadVars,
                    queueVars, threadVars, processed >>

\* patient_briefing: _agent.venice_endpoints_used.add("audio/speech")
EndpointAdd(h) ==
    /\ report_requests[h].at = "endpoint_add"
    /\ venice_endpoints_used' = venice_endpoints_used \cup {"audio/speech"}
    /\ report_requests' = [report_requests EXCEPT ![h].at = "venice_load"]
    /\ UNCHANGED << fusionVars, rulesVars, configVars, callVars, latest_vitals, alerts, logs,
                    audit_log, delivery_stats, stats, ext_calls, receipts, deliver_calls,
                    deliveries, reviews, ephemeral_files, files, now, uploadVars, queueVars,
                    threadVars, processed >>

\* the _db.audit call that ends both endpoints
ReportAudit(h) ==
    /\ report_requests[h].at = "audit"
    /\ SetWorld(audit(World, [type |-> IF report_requests[h].kind = "doctor_report"
                                       THEN "doctor_report_generated"
                                       ELSE "patient_briefing_generated",
                              patient_id |-> Prefix8(report_requests[h].patient_id)]))
    /\ report_requests' = [report_requests EXCEPT ![h].at = "done"]
    /\ UNCHANGED << fusionVars, rulesVars, configVars, callVars, now, uploadVars, queueVars,
                    threadVars, processed >>

Report ==
    \/ ReportBegin
    \/ \E h \in 1..Len(report_requests) : CounterLoad(h)
    \/ \E h \in 1..Len(report_requests) : CounterStore(h)
    \/ \E h \in 1..Len(report_requests) : BriefingTts(h)
    \/ \E h \in 1..Len(report_requests) : EndpointAdd(h)
    \/ \E h \in 1..Len(report_requests) : ReportAudit(h)

\* one symptom text, watched for two ticks
ReportWorkload ==
    [NominalWorkload(MaxReportItems) EXCEPT !.max_loops = MaxReportLoops,
                                            !.max_time = MaxReportTime]

InitReports ==
    /\ InitDeployed
    /\ workload = ReportWorkload

NextReports == NextDeployed \/ Report

\* the deployed program with report and briefing requests coming in while
\* the scheduler thread handles a symptom text
SpecReports == InitReports /\ [][NextReports]_vars

\* the step is one of the scheduler thread
SchedulerStep == pc' # pc \/ pos' # pos

\* the step writes state of the agent other than the queue and the registry
WritesAgentState ==
    \/ stats' # stats
    \/ venice_endpoints_used' # venice_endpoints_used
    \/ loop_count' # loop_count

\* what a counter has counted is still counted after the step
NoUpdateLost == \A k \in DOMAIN stats : stats'[k] >= stats[k]

\* C29: the stats counters, the set of endpoints used and the tick counter
\* are written by steps of the scheduler thread only, and no step takes back
\* what a counter has counted.
C29_OnlySchedulerWritesStats ==
    [][(WritesAgentState => SchedulerStep) /\ NoUpdateLost]_vars

\* ------------------------------------------------------------------------
\* The sweep of the registry
\* ------------------------------------------------------------------------
\* the entries of the registry whose expiry is at or before the present time
Due == { q \in DOMAIN ephemeral_files : ephemeral_files[q] <= now }

\* the step took exactly the due entries out of the registry and left every
\* other entry with its expiry
SweptExactlyDue ==
    /\ DOMAIN ephemeral_files' = DOMAIN ephemeral_files \ Due
    /\ \A q \in DOMAIN ephemeral_files' : ephemeral_files'[q] = ephemeral_files[q]

\* C31: cleanup_expired at time now removes from the registry all and only
\* the entries whose expiry is <= now, keeps every other entry, and returns
\* the number of entries it removed.
C31_SweepRemovesExpiredOnly ==
    [][CleanupCall => /\ SweptExactlyDue
                      /\ ingestion_call'.deleted = Cardinality(Due)]_vars

\* C31 witness: cleanup_expired found two artifacts registered, removed the one
\* whose expiry was exactly the present time, returned 1, and the other one,
\* not yet expired, is still registered.
C31_Witness ==
    /\ ingestion_call.op = "cleanup_expired"
    /\ ingestion_call.deleted = 1
    /\ \E q \in DOMAIN ingestion_call.ephemeral_files :
          /\ ingestion_call.ephemeral_files[q] = now
          /\ q \notin DOMAIN ephemeral_files
    /\ \E q \in DOMAIN ingestion_call.ephemeral_files :
          /\ q \in DOMAIN ephemeral_files
          /\ ephemeral_files[q] > now

\* ------------------------------------------------------------------------
\* The ticks in which the per-patient review runs
\* ------------------------------------------------------------------------
\* the body of tick n has ended: the thread is at time.sleep or beyond
TickOver(n) ==
    \/ loop_count > n
    \/ loop_count = n /\ pc[1] \in {"sleep", "sleeping", "check", "tick", "exited"}

\* the per-patient review was entered in tick n
ReviewRan(n) == \E k \in 1..Len(reviews) : reviews[k].tick = n

\* the review is entered in due ticks only, once per tick
ReviewOnlyWhenDue ==
    /\ \A k \in 1..Len(reviews) : reviews[k].tick > 0 /\ reviews[k].tick % 5 = 0
    /\ \A k, l \in 1..Len(reviews) : reviews[k].tick = reviews[l].tick => k = l

\* every due tick that has ended went through the review
ReviewInEveryDueTick ==
    \A n \in 1..loop_count : (n % 5 = 0 /\ TickOver(n)) => ReviewRan(n)

\* the step starts a tick
StartsTick == pc[1] = "tick" /\ pc'[1] = "drain"

\* the tick count changes only when a tick starts, and then by one
CountsTicks ==
    /\ StartsTick <=> loop_count' # loop_count
    /\ loop_count' # loop_count => loop_count' = loop_count + 1

\* C32: the per-patient review runs in every tick whose count is a positive
\* multiple of 5 and in no other tick, and the tick count goes up by exactly
\* one with every tick started, whether the tick ends in a fault or not.
C32_ReviewEveryFifthTick ==
    /\ [](ReviewOnlyWhenDue /\ ReviewInEveryDueTick)
    /\ [][CountsTicks]_vars

\* ------------------------------------------------------------------------
\* Delivery within process_event
\* ------------------------------------------------------------------------
\* the process_event calls that ended with a fused decision on the result
Decided == { c \in Ended : CallOf(c).result.has_decision }

\* deliver was entered once for an alert-worthy decision, never otherwise
DeliveredWhenAlertWorthy ==
    \A c \in Decided :
        Cardinality(CallOf(c).deliveries)
            = (IF AlertWorthy(CallOf(c).result.decision) THEN 1 ELSE 0)

\* a normal or monitor decision left no alert record, no audit entry and no
\* receipt
QuietWhenNotAlertWorthy ==
    \A c \in Decided :
        ~AlertWorthy(CallOf(c).result.decision)
            => /\ CallOf(c).alert_records = {}
               /\ CallOf(c).audits = {}
               /\ ~CallOf(c).result.has_delivery

\* the result carries a receipt exactly when deliver was entered
ReceiptIffDelivered ==
    \A c \in Ended : CallOf(c).result.has_delivery <=> CallOf(c).deliveries # {}

\* C33: process_event enters deliver exactly once when the fused decision is
\* alert or escalate and not at all otherwise; a normal or monitor decision
\* leaves no alert record, no delivery audit entry and no receipt; the result
\* has a receipt if and only if deliver was entered.
C33_DeliveryIffAlertWorthy ==
    DeliveredWhenAlertWorthy /\ QuietWhenNotAlertWorthy /\ ReceiptIffDelivered

\* ------------------------------------------------------------------------
\* Shape of the list returned by evaluate_rules
\* ------------------------------------------------------------------------
\* the triggers of the list that are about this metric
TriggersOf(results, metric) == { k \in 1..Len(results) : results[k].metric = metric }

\* C34: every list returned by evaluate_rules has at most one trigger per
\* metric, hence at most seven triggers; every trigger has severity 1 or 2;
\* every trigger is about a metric that is in the snapshot.
C34_OneTriggerPerMetric ==
    \A i \in 1..Len(rule_calls) :
        /\ \A m \in Metrics : Cardinality(TriggersOf(rule_calls[i].results, m)) <= 1
        /\ Len(rule_calls[i].results) <= Len(MetricOrder)
        /\ \A k \in 1..Len(rule_calls[i].results) :
              /\ rule_calls[i].results[k].severity \in {1, 2}
              /\ rule_calls[i].results[k].metric \in DOMAIN rule_calls[i].vitals

\* C34 witness: a snapshot with all seven metrics critical was evaluated and
\* gave seven triggers, one per metric.
C34_Witness ==
    /\ Len(rule_calls) >= 1
    /\ DOMAIN arg_vitals = Metrics
    /\ Len(rule_calls[1].results) = 7
    /\ \A m \in Metrics : Cardinality(TriggersOf(rule_calls[1].results, m)) = 1

DecidedWithoutAnalysis ==
    { c \in Decided : items[c[1]].input_type \in {"voice", "text", "vital"} }

\* the scores each pipeline may hand to the fusion, in hundredths
PipelineScores(input_type) ==
    CASE input_type = "voice" -> {70, 30}
      [] input_type = "text" -> {60, 20}
      [] input_type = "vital" -> {0}
      [] OTHER -> {}

\* C36: a voice note, a text or a vital is fused with a score of 0.7 or 0.3,
\* 0.6 or 0.2, or 0.0; its decision is alert only if a rule triggered; an
\* urgent or emergency note with no trigger is fused to monitor; and with a
\* worst trigger severity of 2 the final severity is 2, never 1.
C36_SelfScoredPipelinesNeedRule ==
    \A c \in DecidedWithoutAnalysis :
        /\ CallOf(c).result.decision.ai_decision.anomaly_score.t = "num"
        /\ CallOf(c).result.decision.ai_decision.anomaly_score.v
              \in PipelineScores(items[c[1]].input_type)
        /\ CallOf(c).result.decision.ai_decision.anomaly_score.v <= 70
        /\ CallOf(c).result.decision.final_decision = "alert"
              => CallOf(c).result.decision.rule_triggers # << >>
        /\ (/\ CallOf(c).result.decision.ai_decision.decision \in {"urgent", "emergency"}
            /\ CallOf(c).result.decision.rule_triggers = << >>)
              => CallOf(c).result.decision.final_decision = "monitor"
        /\ (/\ CallOf(c).result.decision.rule_triggers # << >>
            /\ \A k \in 1..Len(CallOf(c).result.decision.rule_triggers) :
                  CallOf(c).result.decision.rule_triggers[k].severity >= 2)
              => CallOf(c).result.decision.final_severity = 2

\* C36 witness: a voice note judged an emergency, with a pain level of 7 as
\* the only trigger, was fused at score 0.7 to an alert of severity 2.
C36_Witness ==
    \E c \in DecidedWithoutAnalysis :
        /\ items[c[1]].input_type = "voice"
        /\ CallOf(c).result.decision.ai_decision.decision = "emergency"
        /\ CallOf(c).result.decision.ai_decision.anomaly_score.v = 70
        /\ Len(CallOf(c).result.decision.rule_triggers) = 1
        /\ CallOf(c).result.decision.rule_triggers[1].metric = "pain_level"
        /\ CallOf(c).result.decision.rule_triggers[1].severity = 2
        /\ CallOf(c).result.decision.final_severity = 2

\* ------------------------------------------------------------------------
\* The upload audit entry and the delivery audit entries of an item
\* ------------------------------------------------------------------------
UploadAuditTypes == {"photo_uploaded", "voice_uploaded", "symptom_submitted", "vital_recorded"}

\* entry y of the audit log is the upload entry of item i
IsUploadAudit(y, i) ==
    /\ audit_log[y].type \in UploadAuditTypes
    /\ audit_log[y].session_id = i

\* C37: every delivery audit entry written while an item was processed stands
\* in the audit log after the upload audit entry of that item.
C37_UploadAuditBeforeDelivery ==
    \A c \in Ended : \A x \in CallOf(c).audits :
        \E y \in 1..(x - 1) : IsUploadAudit(y, c[1])

\* ------------------------------------------------------------------------
\* Raw files and the registry
\* ------------------------------------------------------------------------
\* C38: every raw file on disk has its path in the registry, so that a later
\* cleanup_expired can find it: no deletion takes a path out of the registry
\* and leaves its file.
C38_NoFileOutsideRegistry == \A p \in files : p \in DOMAIN ephemeral_files

\* ------------------------------------------------------------------------
\* The snapshot of a vital item
\* ------------------------------------------------------------------------
\* the ended calls for a vital
VitalCalls == { c \in Ended : items[c[1]].input_type = "vital" }

\* what the rule engine returns for the stored snapshot the call found, with
\* the submitted value in the place of the item's metric
ExpectedTriggers(c) ==
    evaluate_rules(WithVital(CallOf(c).latest, items[c[1]].text.metric, items[c[1]].text.value))

\* C39: a vital item is judged on the snapshot that holds its submitted value
\* for its metric and the stored latest values for the other metrics: the
\* decision is alert exactly when that snapshot triggers a rule, with exactly
\* its triggers, and a submitted value in a critical range gives an alert of
\* severity 1 and a delivery in the same run.
C39_VitalJudgedOnSubmittedValue ==
    \A c \in VitalCalls :
        /\ CallOf(c).result.has_decision
        /\ CallOf(c).result.decision.final_decision = "alert" <=> ExpectedTriggers(c) # << >>
        /\ CallOf(c).result.decision.final_decision = "alert"
              => CallOf(c).result.decision.rule_triggers = ExpectedTriggers(c)
        /\ MeetsCritical(items[c[1]].text.metric, items[c[1]].text.value)
              => /\ CallOf(c).result.decision.final_severity = 1
                 /\ CallOf(c).result.has_delivery
                 /\ Cardinality(CallOf(c).deliveries) = 1

\* ------------------------------------------------------------------------
\* The analysis log record of an item
\* ------------------------------------------------------------------------
\* a call that reached a fused decision wrote exactly one log record
OneLogPerDecision ==
    \A c \in Decided : Cardinality(CallOf(c).log_records) = 1

\* the log record of an alert-worthy decision is written only once the alert
\* record and the delivery audit entry of the call are
LogAfterDelivery ==
    \A c \in Decided :
        (AlertWorthy(CallOf(c).result.decision) /\ CallOf(c).log_records # {})
            => /\ Cardinality(CallOf(c).alert_records) = 1
               /\ Cardinality(CallOf(c).audits) = 1

\* a call that ended without a fused decision wrote no log record
NoLogWithoutDecision ==
    \A c \in Ended \ Decided : CallOf(c).log_records = {}

\* C40: every process_event call that reached a fused decision wrote exactly
\* one log record, after the alert record and the delivery audit entry when
\* the decision is alert-worthy; a call that stopped before the fusion wrote
\* none.
C40_OneLogRecordPerDecision ==
    OneLogPerDecision /\ LogAfterDelivery /\ NoLogWithoutDecision

====
